---- MODULE Spec2Model ----
(***************************************************************************)
(* Model of the AFIP "Mis Retenciones" scraper: the resumable batch run    *)
(* (scrape_mis_retenciones_batch) with its JSON checkpoint files, the      *)
(* export correlation loop (_wait_and_download_file) and the input         *)
(* validation shared with the single-item run (scrape_mis_retenciones).    *)
(*                                                                         *)
(* Python strings are TLA+ strings; characters are read with SubSeq.       *)
(* Optional values are sequences of length 0 (None) or 1.                  *)
(***************************************************************************)
EXTENDS Integers, Sequences, FiniteSets, TLC

(* ------------------------------ bounds -------------------------------- *)

\* number of catalog items a batch run iterates over (a window of TAX_TYPES)
NumItems == 2

\* number of calls of the entry points in one behaviour
MaxRuns == 2

\* max_wait_minutes passed to _wait_and_download_file (the source's default is 10)
MaxWaitMinutes == 1

(* --------------------------- string helpers --------------------------- *)

Chr(s, i) == SubSeq(s, i, i)

Digits == {"0", "1", "2", "3", "4", "5", "6", "7", "8", "9"}

DigitVal == [c \in Digits |->
               CASE c = "0" -> 0 [] c = "1" -> 1 [] c = "2" -> 2 [] c = "3" -> 3
                 [] c = "4" -> 4 [] c = "5" -> 5 [] c = "6" -> 6 [] c = "7" -> 7
                 [] c = "8" -> 8 [] c = "9" -> 9]

IsDigits(s) == \A i \in 1..Len(s) : Chr(s, i) \in Digits

RECURSIVE ToInt(_)
ToInt(s) == IF Len(s) = 0 THEN 0
            ELSE ToInt(SubSeq(s, 1, Len(s) - 1)) * 10 + DigitVal[Chr(s, Len(s))]

\* Python: sub in s
str_in(sub, s) ==
    \E i \in 1..(Len(s) - Len(sub) + 1) : SubSeq(s, i, i + Len(sub) - 1) = sub

\* Python: s.split(sep) for a one-character separator
RECURSIVE str_split(_, _)
str_split(s, sep) ==
    IF \A i \in 1..Len(s) : Chr(s, i) # sep THEN <<s>>
    ELSE LET k == CHOOSE i \in 1..Len(s) :
                     /\ Chr(s, i) = sep
                     /\ \A j \in 1..(i - 1) : Chr(s, j) # sep
         IN <<SubSeq(s, 1, k - 1)>> \o str_split(SubSeq(s, k + 1, Len(s)), sep)

\* Python: s.replace(old, "") for a one-character old
RECURSIVE str_remove(_, _)
str_remove(s, old) ==
    IF Len(s) = 0 THEN ""
    ELSE (IF Chr(s, 1) = old THEN "" ELSE Chr(s, 1))
           \o str_remove(SubSeq(s, 2, Len(s)), old)

\* Python: s.strip() (blanks only)
RECURSIVE str_strip(_)
str_strip(s) ==
    IF Len(s) = 0 THEN ""
    ELSE IF Chr(s, 1) = " " THEN str_strip(SubSeq(s, 2, Len(s)))
    ELSE IF Chr(s, Len(s)) = " " THEN str_strip(SubSeq(s, 1, Len(s) - 1))
    ELSE s

(* ------------------------- dates and timestamps ----------------------- *)

IsLeap(y) == (y % 4 = 0 /\ y % 100 # 0) \/ y % 400 = 0

DaysInMonth(y, m) ==
    IF m = 2 THEN (IF IsLeap(y) THEN 29 ELSE 28)
    ELSE IF m \in {4, 6, 9, 11} THEN 30 ELSE 31

RECURSIVE DaysBeforeMonth(_, _)
DaysBeforeMonth(y, m) ==
    IF m = 1 THEN 0 ELSE DaysBeforeMonth(y, m - 1) + DaysInMonth(y, m - 1)

\* datetime.toordinal()
ToOrdinal(y, m, d) ==
    365 * (y - 1) + ((y - 1) \div 4) - ((y - 1) \div 100) + ((y - 1) \div 400)
      + DaysBeforeMonth(y, m) + d

\* the directives of _strptime: %d, %m, %Y, %H, %M
FieldD(f) == \/ Len(f) = 1 /\ IsDigits(f) /\ ToInt(f) \in 1..9
             \/ Len(f) = 2 /\ IsDigits(f) /\ ToInt(f) \in 1..31
             \/ Len(f) = 2 /\ Chr(f, 1) = " " /\ IsDigits(Chr(f, 2)) /\ ToInt(Chr(f, 2)) \in 1..9
FieldM(f) == \/ Len(f) = 1 /\ IsDigits(f) /\ ToInt(f) \in 1..9
             \/ Len(f) = 2 /\ IsDigits(f) /\ ToInt(f) \in 1..12
FieldY(f) == Len(f) = 4 /\ IsDigits(f)
FieldH(f) == Len(f) \in {1, 2} /\ IsDigits(f) /\ ToInt(f) \in 0..23
FieldMin(f) == Len(f) \in {1, 2} /\ IsDigits(f) /\ ToInt(f) \in 0..59

BadDate == [ok |-> FALSE, y |-> 0, m |-> 0, d |-> 0, H |-> 0, M |-> 0]

\* datetime.strptime(text, "%d/%m/%Y"); ok = FALSE stands for ValueError
strptime_date(text) ==
    LET f == str_split(text, "/") IN
    IF Len(f) # 3 THEN BadDate
    ELSE IF ~(FieldD(f[1]) /\ FieldM(f[2]) /\ FieldY(f[3])) THEN BadDate
    ELSE LET d == ToInt(str_remove(f[1], " "))
             m == ToInt(f[2])
             y == ToInt(f[3])
         IN IF y < 1 \/ d > DaysInMonth(y, m) THEN BadDate
            ELSE [ok |-> TRUE, y |-> y, m |-> m, d |-> d, H |-> 0, M |-> 0]

\* datetime.strptime(text, "%d/%m/%Y %H:%M"); a blank of the format is \s+
strptime_stamp(text) ==
    LET parts == SelectSeq(str_split(text, " "), LAMBDA p : p # "") IN
    IF Len(parts) # 2 \/ Len(text) = 0 \/ Chr(text, 1) = " " \/ Chr(text, Len(text)) = " "
    THEN BadDate
    ELSE LET date == strptime_date(parts[1])
             hm == str_split(parts[2], ":")
         IN IF ~date.ok \/ Len(hm) # 2 THEN BadDate
            ELSE IF ~(FieldH(hm[1]) /\ FieldMin(hm[2])) THEN BadDate
            ELSE [date EXCEPT !.H = ToInt(hm[1]), !.M = ToInt(hm[2])]

\* datetime comparison a > b on dates
DateAfter(a, b) ==
    \/ a.y > b.y
    \/ a.y = b.y /\ a.m > b.m
    \/ a.y = b.y /\ a.m = b.m /\ a.d > b.d

\* minutes since the start of the proleptic calendar
MinuteOf(t) == ToOrdinal(t.y, t.m, t.d) * 1440 + t.H * 60 + t.M

(* ------------------------------ catalog ------------------------------- *)

None == "None"

TaxTypeConfig(code, name, category, operation_mode) ==
    [code |-> code, name |-> name, category |-> category,
     operation_mode |-> operation_mode]

TAX_TYPES == <<
    TaxTypeConfig("IMP_172", "172 - IMPUESTO TRANSF DE INMUEBLES", "Impositivas", "retencion"),
    TaxTypeConfig("IMP_216", "216 - SIRE - IVA", "Impositivas", "retencion"),
    TaxTypeConfig("IMP_217", "217 - SICORE-IMPTO.A LAS GANANCIAS", "Impositivas", "ambas"),
    TaxTypeConfig("IMP_218", "218 - IMP.A LAS GAN.- BENEF.DEL EXT.", "Impositivas", "retencion"),
    TaxTypeConfig("IMP_219", "219 - SICORE-IMPTO.S/ BS PERSONALES", "Impositivas", "ambas_separadas"),
    TaxTypeConfig("IMP_222", "222 - DONACIONES Y OTRO TIPO DE LIB.", "Impositivas", "retencion"),
    TaxTypeConfig("IMP_466", "466 - SICORE-PREMIOS JUEGOS Y C.DEP", "Impositivas", "retencion"),
    TaxTypeConfig("IMP_767", "767 - SICORE - RETENCIONES Y PERCEPC", "Impositivas", "ambas"),
    TaxTypeConfig("IMP_787", "787 - RET ART 79 LEY GCIAS INC A,ByC", "Impositivas", "retencion"),
    TaxTypeConfig("IMP_939", "939 - PERCEPCION IMPUESTO PAIS", "Impositivas", "percepcion"),
    TaxTypeConfig("SS_353", "353 - RETENCIONES CONTRIB.SEG.SOCIAL", "Seguridad Social", "ambas"),
    TaxTypeConfig("ADU_217", "217 - SICORE-IMPTO.A LAS GANANCIAS", "Aduaneras", "fecha_solo"),
    TaxTypeConfig("ADU_767", "767 - SICORE - RETENCIONES Y PERCEPC", "Aduaneras", "fecha_solo"),
    TaxTypeConfig("SIR_216", "216 - SIRE - IVA", "Certificados SIRE", "retencion"),
    TaxTypeConfig("SIR_218", "218 - IMP.A LAS GAN.- BENEF.DEL EXT.", "Certificados SIRE", "retencion"),
    TaxTypeConfig("SIR_353", "353 - RETENCIONES CONTRIB.SEG.SOCIAL", "Certificados SIRE", "ambas") >>

\* TAX_TYPES_DICT.get(tax_code): a sequence of length 0 (None) or 1
TAX_TYPES_DICT(tax_code) ==
    SelectSeq(TAX_TYPES, LAMBDA t : t.code = tax_code)

\* the window of the catalog the modelled batch run iterates over
\* (IMP_218 with one variant, IMP_219 with two, then onwards)
Plan == SubSeq(TAX_TYPES, 4, 3 + NumItems)

Op(value, name) == [value |-> value, name |-> name]

\* OperationsToRun without the branch of line 1257: the list stays empty
OperationsToRun_SeparadasLost(mode) ==
    CASE mode = "retencion" -> <<Op("1", "Retencion")>>
      [] mode = "percepcion" -> <<Op("2", "Percepcion")>>
      [] mode = "ambas" -> <<Op("0", "Retencion y percepcion")>>
      [] mode = "fecha_solo" -> <<Op(None, "Solo fecha")>>
      [] OTHER -> << >>

\* operations_to_run of a catalog item
OperationsToRun(mode) ==
    CASE mode = "retencion" -> <<Op("1", "Retencion")>>
      [] mode = "percepcion" -> <<Op("2", "Percepcion")>>
      [] mode = "ambas" -> <<Op("0", "Retencion y percepcion")>>
      [] mode = "ambas_separadas" -> <<Op("1", "Retencion"), Op("2", "Percepcion")>>
      [] mode = "fecha_solo" -> <<Op(None, "Solo fecha")>>
      [] OTHER -> << >>

(* ------------------------------ inputs -------------------------------- *)

\* (fecha_desde, fecha_hasta) pairs a caller may pass
DateRanges == {
    <<"01/01/2024", "31/01/2024">>,
    <<"15/01/2024", "15/01/2024">>,
    <<"1/3/2024", "29/2/2024">>,
    <<"31/01/2024", "01/01/2024">>,
    <<"01/03/2024", "29/02/2024">>,
    <<"2024-01-01", "31/01/2024">>,
    <<"01/01/2024", "31/02/2024">>,
    <<"01/01/2024", "">> }

CuitTargets == {"20111111112"}

\* the ids uuid4().hex[:12] yields, in the order they are generated
IdPool == <<"a1b2c3d4e5f6", "0f9e8d7c6b5a", "123456789abc", "cafe0123beef", "77aa88bb99cc">>

UnknownId == "ffffffffffff"

\* tax_code arguments of the single-item run
TaxCodeInputs == {"IMP_219", "XXX_000"}

\* tax_code arguments of a call of _wait_and_download_file
CorrelatorCodes == {"IMP_218", "IMP_219", "219"}

\* the clock readings datetime.now() gives when the polling starts
ExportTimes == {
    [ok |-> TRUE, y |-> 2025, m |-> 11, d |-> 15, H |-> 19, M |-> 51, S |-> 0],
    [ok |-> TRUE, y |-> 2025, m |-> 11, d |-> 15, H |-> 19, M |-> 52, S |-> 0],
    [ok |-> TRUE, y |-> 2025, m |-> 11, d |-> 15, H |-> 19, M |-> 51, S |-> 30] }

\* what the first row of the "Consultas exportadas" grid can show at a poll;
\* a cell that cannot be read leaves its text "" (lines 890-913)
FiltrosTexts == {"Impuesto: 218", "Impuesto: 219", "Impuesto: 222", ""}
EstadoTexts == {"Finalizado", "Procesando", ""}
TimestampTexts == {"15/11/2025 19:51", " 15/11/2025 19:46 ", "15/11/2025 19:57",
                   "14/11/2025 19:51", "hace un momento", ""}

Row(present, filtros, estado, timestamp) ==
    [present |-> present, filtros |-> filtros, estado |-> estado, timestamp |-> timestamp]

NoRow == Row(FALSE, "", "", "")

Rows == {NoRow} \cup
        { Row(TRUE, f, e, t) : f \in FiltrosTexts, e \in EstadoTexts, t \in TimestampTexts }

\* the inputs of the batch behaviours: one accepted range and two rejected
\* ones, a portal whose first row is empty or shows a finished recent export
BatchRanges == {<<"01/01/2024", "31/01/2024">>, <<"31/01/2024", "01/01/2024">>,
                <<"2024-01-01", "31/01/2024">>}

BatchRows == {NoRow} \cup
             { Row(TRUE, f, "Finalizado", "15/11/2025 19:51") : f \in FiltrosTexts \ {""} }

BatchTimes == {[ok |-> TRUE, y |-> 2025, m |-> 11, d |-> 15, H |-> 19, M |-> 51, S |-> 30]}

(* ------------------------------- state -------------------------------- *)

VARIABLES
    files,          \* OUTPUT_DIR/checkpoint_<id>.json: [exists, text]; text is << >> while unloadable
    lastPersisted,  \* per session id, the last record a save_checkpoint wrote completely
    progress,       \* the run's BatchProgress object: << >> (None) or <<record>>
    pc,             \* position of the running entry point
    ret,            \* position to continue at when save_checkpoint returns
    args,           \* arguments of the running call
    idx,            \* enumerate(TAX_TYPES, 1) index of the batch loop
    opi,            \* index into operations_to_run
    browser,        \* "closed" or "open" (the persistent browser context)
    profiles,       \* temporary profile directories that exist
    portal,         \* the portal as the UI driver meets it
    log,            \* on_log lines of the running call
    uuids,          \* number of uuid4() ids generated so far
    runs,           \* number of calls made so far
    attempt,        \* _wait_and_download_file: attempt
    export_time,    \* _wait_and_download_file: export_time, << >> before it is taken
    row,            \* _wait_and_download_file: the first row matched at this poll
    loaded,         \* what load_checkpoint returned to the running call
    file_path,      \* the path _wait_and_download_file returned, None before
    grid,           \* the "Consultas exportadas" grid of the portal, where it is followed
    stop_requested, \* the user has asked for the running batch to stop
    mtime,          \* the session ids of the checkpoint files, most recently modified first
    nav,            \* navigate_calendar_to_date_with_arrows: its locals and the widget
    gui,            \* the App window: its buttons, pending callbacks and worker threads
    env             \* what the callers and the portal may do in this behaviour

vars == <<env, gui, stop_requested, mtime, nav, grid, file_path, files, lastPersisted, progress, pc, ret, args, idx, opi, browser,
          profiles, portal, log, uuids, runs, attempt, export_time, row, loaded>>

SessionIds == {IdPool[i] : i \in 1..Len(IdPool)} \cup {UnknownId}

NoFile == [exists |-> FALSE, text |-> << >>]

NoArgs == [mode |-> "none", cuit_target |-> "", tax_code |-> "",
           fecha_desde |-> "", fecha_hasta |-> "", resume_session_id |-> None]

\* lostDuring: the item in flight when the session was lost, None otherwise
FreshPortal == [sessionLost |-> FALSE, cuitSelected |-> FALSE, lostDuring |-> None]

P == progress[1]

\* requested: the tax codes of the exports the portal was asked for, oldest
\* first; rows: the entries the grid shows, newest first
NoGrid == [requested |-> << >>, rows |-> << >>]

\* no call of navigate_calendar_to_date_with_arrows is under way.
\* shown: year * 12 + month of the month the widget displays; reads, left,
\* right: the label reads and the arrow clicks made so far; parse_failed: a
\* title could not be parsed; outcome: "" while running, then "True" or the
\* exception raised
NoNav == [target_year |-> 0, target_month |-> 0, attempts |-> 0, title_text |-> "",
          current_year |-> 0, current_month |-> 0, shown |-> 0, reads |-> 0,
          left |-> 0, right |-> 0, parse_failed |-> FALSE, outcome |-> ""]

\* App.__init__ with an empty OUTPUT_DIR (lines 1413-1423): Start is enabled,
\* Resume is disabled by check_for_checkpoint, no worker thread exists.
\* after: the callbacks handed to self.after and not yet run; threads: the
\* worker threads alive; in_progress: the sessions whose checkpoint file has
\* status in_progress, most recently written first; dialogs: open message boxes
FreshApp == [btn |-> "normal", btn_resume |-> "disabled", batch_checkbox |-> "normal",
             batch_mode_var |-> FALSE, after |-> << >>, threads |-> << >>,
             in_progress |-> << >>, sessions |-> 0, started |-> 0, dialogs |-> 0]

\* the state of a fresh process and an empty OUTPUT_DIR
Start ==
    /\ grid = NoGrid
    /\ gui = FreshApp
    /\ mtime = << >>
    /\ stop_requested = FALSE
    /\ nav = NoNav
    /\ files = [s \in SessionIds |-> NoFile]
    /\ lastPersisted = [s \in SessionIds |-> << >>]
    /\ progress = << >>
    /\ pc = "idle"
    /\ ret = "idle"
    /\ args = NoArgs
    /\ idx = 0
    /\ opi = 0
    /\ browser = "closed"
    /\ profiles = {}
    /\ portal = FreshPortal
    /\ log = << >>
    /\ uuids = 0
    /\ runs = 0
    /\ attempt = 0
    /\ export_time = << >>
    /\ row = NoRow
    /\ loaded = << >>
    /\ file_path = None

\* batch runs, crashes and resumes
Init ==
    /\ Start
    /\ env = [modes |-> {"batch"}, calls |-> MaxRuns,
              ranges |-> BatchRanges, rows |-> BatchRows, times |-> BatchTimes,
              grid |-> "any"]

(* --------------------------- checkpoint store -------------------------- *)

BatchProgress(session_id, cuit_target, fecha_desde, fecha_hasta) ==
    [session_id |-> session_id,
     cuit_target |-> cuit_target,
     fecha_desde |-> fecha_desde,
     fecha_hasta |-> fecha_hasta,
     completed_tax_codes |-> << >>,
     current_tax_code |-> None,
     all_downloaded_files |-> << >>,
     status |-> "in_progress"]

\* load_checkpoint: None when the file is missing or json.load fails
load_checkpoint(session_id) ==
    IF session_id \notin SessionIds THEN << >>
    ELSE IF ~files[session_id].exists THEN << >>
    ELSE files[session_id].text

\* st_mtime order after the file of the session was written to
Touched(session_id) == <<session_id>> \o SelectSeq(mtime, LAMBDA s : s # session_id)

\* find_latest_checkpoint: the files are taken most recently modified first;
\* the first one that loads and has status in_progress is returned, None
\* when there is none (a sequence of length 0 or 1)
find_latest_checkpoint ==
    LET in_progress == SelectSeq(mtime, LAMBDA s :
                           /\ load_checkpoint(s) # << >>
                           /\ load_checkpoint(s)[1].status = "in_progress")
    IN IF in_progress = << >> THEN << >> ELSE load_checkpoint(in_progress[1])

\* save_checkpoint begins: open(checkpoint_path, 'w') truncates the file
SaveOpen ==
    /\ pc = "save_open"
    /\ files' = [files EXCEPT ![P.session_id] = [exists |-> TRUE, text |-> << >>]]
    /\ mtime' = Touched(P.session_id)
    /\ pc' = "save_dump"
    /\ UNCHANGED <<env, gui, stop_requested, nav, grid, file_path, lastPersisted, progress, ret, args, idx, opi, browser, profiles,
                   portal, log, uuids, runs, attempt, export_time, row, loaded>>

\* save_checkpoint ends: json.dump has written the record and the file is closed
SaveDump ==
    /\ pc = "save_dump"
    /\ files' = [files EXCEPT ![P.session_id] = [exists |-> TRUE, text |-> <<P>>]]
    /\ lastPersisted' = [lastPersisted EXCEPT ![P.session_id] = <<P>>]
    /\ mtime' = Touched(P.session_id)
    /\ pc' = ret
    /\ UNCHANGED <<env, gui, stop_requested, nav, grid, file_path, progress, ret, args, idx, opi, browser, profiles,
                   portal, log, uuids, runs, attempt, export_time, row, loaded>>

(* ------------------------------ helpers -------------------------------- *)

\* validar_rango_fecha with >= in place of the > of line 137
validar_rango_fecha_NotBefore(fecha_desde, fecha_hasta) ==
    LET desde == strptime_date(fecha_desde)
        hasta == strptime_date(fecha_hasta)
    IN IF ~desde.ok \/ ~hasta.ok
       THEN [es_valido |-> FALSE, mensaje |-> "Formato de fecha invalido. Use dd/mm/yyyy"]
       ELSE IF ~DateAfter(hasta, desde)
       THEN [es_valido |-> FALSE,
             mensaje |-> "La fecha 'desde' no puede ser posterior a la fecha 'hasta'"]
       ELSE [es_valido |-> TRUE, mensaje |-> ""]

\* validar_rango_fecha: (es_valido, mensaje)
validar_rango_fecha(fecha_desde, fecha_hasta) ==
    LET desde == strptime_date(fecha_desde)
        hasta == strptime_date(fecha_hasta)
    IN IF ~desde.ok \/ ~hasta.ok
       THEN [es_valido |-> FALSE, mensaje |-> "Formato de fecha invalido. Use dd/mm/yyyy"]
       ELSE IF DateAfter(desde, hasta)
       THEN [es_valido |-> FALSE,
             mensaje |-> "La fecha 'desde' no puede ser posterior a la fecha 'hasta'"]
       ELSE [es_valido |-> TRUE, mensaje |-> ""]

Range(seq) == {seq[i] : i \in 1..Len(seq)}

Running == pc \notin {"idle", "returned", "raised", "crashed"}

\* the catalog item being processed
tax_config == IF args.mode = "batch" THEN Plan[idx] ELSE TAX_TYPES_DICT(args.tax_code)[1]

\* the tax_code argument of the UI steps
cur_tax_code == IF args.mode = "batch" THEN Plan[idx].code ELSE args.tax_code

operations_to_run == OperationsToRun(tax_config.operation_mode)

\* where an exception raised at the current position is handled
Handler ==
    IF args.mode = "call" THEN "raised"
    ELSE IF args.mode = "single" THEN "single_finally"
    ELSE IF pc \in {"launch", "login", "open_mr"} THEN "except"
    ELSE "variant_except"

\* locals of a call that has ended
EndOfCall ==
    /\ progress' = << >>
    /\ idx' = 0
    /\ opi' = 0
    /\ attempt' = 0
    /\ export_time' = << >>
    /\ row' = NoRow
    /\ browser' = "closed"
    /\ ret' = "idle"
    /\ file_path' = None
    /\ stop_requested' = FALSE

(* --------------------------- entry points ------------------------------ *)

\* a caller (the GUI worker) invokes scrape_mis_retenciones or
\* scrape_mis_retenciones_batch; no call runs while another one does
Call ==
    /\ ~Running
    /\ runs < env.calls
    /\ \E mode \in env.modes, dr \in env.ranges, ct \in CuitTargets,
          tc \in TaxCodeInputs,
          r \in {None, UnknownId} \cup {IdPool[i] : i \in 1..uuids} :
         /\ mode = "single" => r = None
         /\ mode = "batch" => tc = CHOOSE t \in TaxCodeInputs : TRUE
         /\ args' = [mode |-> mode, cuit_target |-> ct,
                     tax_code |-> IF mode = "single" THEN tc ELSE "",
                     fecha_desde |-> dr[1], fecha_hasta |-> dr[2],
                     resume_session_id |-> r]
    /\ env.modes # {"call"}
    /\ pc' = "validate"
    /\ runs' = runs + 1
    /\ log' = << >>
    /\ loaded' = << >>
    /\ stop_requested' = FALSE
    /\ portal' = FreshPortal
    /\ UNCHANGED <<env, gui, mtime, nav, grid, file_path, files, lastPersisted, progress, ret, idx, opi, browser, profiles,
                   uuids, attempt, export_time, row>>

\* App.on_resume and start_batch_worker: the form is filled from the latest
\* in_progress checkpoint and the batch is started with its session id; without
\* such a checkpoint nothing is started
OnResume ==
    /\ ~Running
    /\ runs < env.calls
    /\ "batch" \in env.modes
    /\ find_latest_checkpoint # << >>
    /\ LET latest == find_latest_checkpoint[1] IN
       args' = [mode |-> "batch", cuit_target |-> latest.cuit_target, tax_code |-> "",
                fecha_desde |-> latest.fecha_desde, fecha_hasta |-> latest.fecha_hasta,
                resume_session_id |-> latest.session_id]
    /\ pc' = "validate"
    /\ runs' = runs + 1
    /\ log' = << >>
    /\ loaded' = << >>
    /\ stop_requested' = FALSE
    /\ portal' = FreshPortal
    /\ UNCHANGED <<env, gui, mtime, nav, grid, file_path, files, lastPersisted, progress, ret, idx, opi, browser,
                   profiles, uuids, attempt, export_time, row>>

\* scrape_mis_retenciones_batch, lines 1163-1167
BatchValidate ==
    /\ pc = "validate" /\ args.mode = "batch"
    /\ LET v == validar_rango_fecha(args.fecha_desde, args.fecha_hasta) IN
       IF ~v.es_valido
       THEN /\ log' = Append(log, <<"validation", v.mensaje>>)
            /\ pc' = "raised"
       ELSE /\ log' = log
            /\ pc' = "load"
    /\ UNCHANGED <<env, gui, stop_requested, mtime, nav, grid, file_path, files, lastPersisted, progress, ret, args, idx, opi, browser,
                   profiles, portal, uuids, runs, attempt, export_time, row, loaded>>

\* lines 1169-1177: a given resume id is looked up with load_checkpoint
BatchLoad ==
    /\ pc = "load"
    /\ IF args.resume_session_id # None
       THEN LET found == load_checkpoint(args.resume_session_id) IN
            /\ progress' = found
            /\ loaded' = found
            /\ log' = Append(log, IF found # << >>
                                  THEN <<"resume", args.resume_session_id>>
                                  ELSE <<"not found", args.resume_session_id>>)
       ELSE /\ progress' = << >>
            /\ loaded' = << >>
            /\ log' = log
    /\ pc' = "create"
    /\ UNCHANGED <<env, gui, stop_requested, mtime, nav, grid, file_path, files, lastPersisted, ret, args, idx, opi, browser, profiles,
                   portal, uuids, runs, attempt, export_time, row>>

\* BatchCreate without the save_checkpoint of line 1195
BatchCreate_NoSave ==
    /\ pc = "create"
    /\ IF progress = << >>
       THEN /\ uuids' = uuids + 1
            /\ progress' = <<BatchProgress(IdPool[uuids + 1], args.cuit_target,
                                           args.fecha_desde, args.fecha_hasta)>>
            /\ log' = Append(log, <<"new", IdPool[uuids + 1]>>)
       ELSE UNCHANGED <<uuids, progress, log>>
    /\ pc' = "mkprofile"
    /\ UNCHANGED <<env, gui, stop_requested, mtime, nav, grid, file_path, files, lastPersisted, ret, args, idx, opi, browser,
                   profiles, portal, runs, attempt, export_time, row, loaded>>

\* lines 1179-1196: without a loaded record a fresh one is made and saved
BatchCreate ==
    /\ pc = "create"
    /\ IF progress = << >>
       THEN /\ uuids' = uuids + 1
            /\ progress' = <<BatchProgress(IdPool[uuids + 1], args.cuit_target,
                                           args.fecha_desde, args.fecha_hasta)>>
            /\ log' = Append(log, <<"new", IdPool[uuids + 1]>>)
            /\ pc' = "save_open"
            /\ ret' = "mkprofile"
       ELSE /\ pc' = "mkprofile"
            /\ UNCHANGED <<uuids, progress, log, ret>>
    /\ UNCHANGED <<env, gui, stop_requested, mtime, nav, grid, file_path, files, lastPersisted, args, idx, opi, browser, profiles,
                   portal, runs, attempt, export_time, row, loaded>>

\* lines 1204-1207: the temporary profile named after the session
BatchMkProfile ==
    /\ pc = "mkprofile"
    /\ profiles' = profiles \cup {"studioai_mr_batch_" \o P.session_id}
    /\ pc' = "launch"
    /\ UNCHANGED <<env, gui, stop_requested, mtime, nav, grid, file_path, files, lastPersisted, progress, ret, args, idx, opi, browser,
                   portal, log, uuids, runs, attempt, export_time, row, loaded>>

\* scrape_mis_retenciones, lines 1023-1027
SingleValidate ==
    /\ pc = "validate" /\ args.mode = "single"
    /\ LET v == validar_rango_fecha(args.fecha_desde, args.fecha_hasta) IN
       IF ~v.es_valido
       THEN /\ log' = Append(log, <<"validation", v.mensaje>>)
            /\ pc' = "raised"
       ELSE /\ log' = log
            /\ pc' = "config"
    /\ UNCHANGED <<env, gui, stop_requested, mtime, nav, grid, file_path, files, lastPersisted, progress, ret, args, idx, opi, browser,
                   profiles, portal, uuids, runs, attempt, export_time, row, loaded>>

\* lines 1038-1040: the profile of a single-item run; its uuid4().hex[:8] is
\* drawn apart from the session ids
SingleProfile == "studioai_mr_" \o SubSeq(IdPool[Len(IdPool) + 1 - runs], 1, 8)

\* lines 1029-1043: the tax code is looked up, then the profile is made
SingleConfig ==
    /\ pc = "config"
    /\ IF TAX_TYPES_DICT(args.tax_code) = << >>
       THEN /\ pc' = "raised"
            /\ UNCHANGED <<profiles, uuids>>
       ELSE /\ profiles' = profiles \cup {SingleProfile}
            /\ pc' = "launch"
            /\ uuids' = uuids
    /\ UNCHANGED <<env, gui, stop_requested, mtime, nav, grid, file_path, files, lastPersisted, progress, ret, args, idx, opi, browser,
                   portal, log, runs, attempt, export_time, row, loaded>>

(* --------------------------- portal session ---------------------------- *)

\* async_playwright / launch_persistent_context (1210-1217, 1046-1053)
Launch ==
    /\ pc = "launch"
    /\ \/ /\ browser' = "open"
          /\ pc' = "login"
          /\ log' = log
       \/ /\ browser' = "closed"
          /\ pc' = Handler
          /\ log' = Append(log, <<"failed", "launch">>)
    /\ UNCHANGED <<env, gui, stop_requested, mtime, nav, grid, file_path, files, lastPersisted, progress, ret, args, idx, opi,
                   profiles, portal, uuids, runs, attempt, export_time, row, loaded>>

\* the portal session ends or the portal stops answering
SessionLoss ==
    /\ Running
    /\ browser = "open"
    /\ ~portal.sessionLost
    /\ portal' = [portal EXCEPT !.sessionLost = TRUE,
                                !.lostDuring = IF progress # << >> /\ args.mode = "batch"
                                               THEN P.current_tax_code ELSE None]
    /\ UNCHANGED <<env, gui, stop_requested, mtime, nav, grid, file_path, files, lastPersisted, progress, pc, ret, args, idx, opi, browser,
                   profiles, log, uuids, runs, attempt, export_time, row, loaded>>

\* _afip_login: returns the portal page or raises
AfipLogin ==
    /\ pc = "login"
    /\ \/ /\ ~portal.sessionLost
          /\ pc' = "open_mr"
          /\ browser' = browser
          /\ log' = log
       \/ /\ pc' = Handler
          /\ browser' = "closed"
          /\ log' = Append(log, <<"failed", "login">>)
    /\ UNCHANGED <<env, gui, stop_requested, mtime, nav, grid, file_path, files, lastPersisted, progress, ret, args, idx, opi,
                   profiles, portal, uuids, runs, attempt, export_time, row, loaded>>

\* _open_mis_retenciones: returns the service page or raises
OpenMisRetenciones ==
    /\ pc = "open_mr"
    /\ \/ /\ ~portal.sessionLost
          /\ pc' = "select_cuit"
          /\ browser' = browser
          /\ log' = log
       \/ /\ pc' = Handler
          /\ browser' = "closed"
          /\ log' = Append(log, <<"failed", "open">>)
    /\ UNCHANGED <<env, gui, stop_requested, mtime, nav, grid, file_path, files, lastPersisted, progress, ret, args, idx, opi,
                   profiles, portal, uuids, runs, attempt, export_time, row, loaded>>

\* _select_cuit_representado: every failure is caught and logged (541-544),
\* a CUIT missing from the list is logged (538-539); the call always returns
SelectCuitRepresentado ==
    /\ pc = "select_cuit"
    /\ \E found \in BOOLEAN :
         /\ portal.sessionLost => ~found
         /\ portal' = [portal EXCEPT !.cuitSelected = found]
         /\ log' = IF found THEN log ELSE Append(log, <<"cuit not selected">>)
    /\ idx' = 1
    /\ opi' = 1
    /\ pc' = IF args.mode = "batch" THEN "loop" ELSE "single_ops"
    /\ UNCHANGED <<env, gui, stop_requested, mtime, nav, grid, file_path, files, lastPersisted, progress, ret, args, browser,
                   profiles, uuids, runs, attempt, export_time, row, loaded>>

(* ----------------------------- batch loop ------------------------------ *)

\* BatchLoop leaving the loop one item early
BatchLoop_StopEarly ==
    /\ pc = "loop"
    /\ IF idx >= Len(Plan)
       THEN /\ pc' = "all_done"
            /\ UNCHANGED <<progress, log, idx, opi, ret>>
       ELSE IF Plan[idx].code \in Range(P.completed_tax_codes)
       THEN /\ log' = Append(log, <<"skip", Plan[idx].code>>)
            /\ idx' = idx + 1
            /\ pc' = "loop"
            /\ UNCHANGED <<progress, opi, ret>>
       ELSE /\ progress' = <<[P EXCEPT !.current_tax_code = Plan[idx].code]>>
            /\ log' = Append(log, <<"item", Plan[idx].code>>)
            /\ opi' = 1
            /\ pc' = "save_open"
            /\ ret' = "ops"
            /\ idx' = idx
    /\ UNCHANGED <<env, gui, stop_requested, mtime, nav, grid, file_path, files, lastPersisted, args, browser, profiles, portal,
                   uuids, runs, attempt, export_time, row, loaded>>

\* lines 1229-1244: next catalog item; a completed one is skipped, another
\* one becomes current_tax_code and the checkpoint is saved
BatchLoop ==
    /\ pc = "loop"
    /\ IF idx > Len(Plan)
       THEN /\ pc' = "all_done"
            /\ UNCHANGED <<progress, log, idx, opi, ret>>
       ELSE IF Plan[idx].code \in Range(P.completed_tax_codes)
       THEN /\ log' = Append(log, <<"skip", Plan[idx].code>>)
            /\ idx' = idx + 1
            /\ pc' = "loop"
            /\ UNCHANGED <<progress, opi, ret>>
       ELSE /\ progress' = <<[P EXCEPT !.current_tax_code = Plan[idx].code]>>
            /\ log' = Append(log, <<"item", Plan[idx].code>>)
            /\ opi' = 1
            /\ pc' = "save_open"
            /\ ret' = "ops"
            /\ idx' = idx
    /\ UNCHANGED <<env, gui, stop_requested, mtime, nav, grid, file_path, files, lastPersisted, args, browser, profiles, portal,
                   uuids, runs, attempt, export_time, row, loaded>>

\* BatchOps taking the variants of the item from the last to the first
BatchOps_Reversed ==
    /\ pc = "ops"
    /\ IF opi > Len(operations_to_run)
       THEN /\ pc' = "item_done"
            /\ log' = log
       ELSE /\ pc' = "fill"
            /\ log' = Append(log, <<"start", tax_config.code,
                                    operations_to_run[Len(operations_to_run) + 1 - opi].name>>)
    /\ UNCHANGED <<env, gui, stop_requested, mtime, nav, grid, file_path, files, lastPersisted, progress, ret, args, idx, opi, browser,
                   profiles, portal, uuids, runs, attempt, export_time, row, loaded>>

\* lines 1263-1264: next variant of the item, or the item is finished
BatchOps ==
    /\ pc = "ops"
    /\ IF opi > Len(operations_to_run)
       THEN /\ pc' = "item_done"
            /\ log' = log
       ELSE /\ pc' = "fill"
            /\ log' = Append(log, <<"start", tax_config.code, operations_to_run[opi].name>>)
    /\ UNCHANGED <<env, gui, stop_requested, mtime, nav, grid, file_path, files, lastPersisted, progress, ret, args, idx, opi, browser,
                   profiles, portal, uuids, runs, attempt, export_time, row, loaded>>

\* lines 1080-1085: the single-item run's loop over its variants
SingleOps ==
    /\ pc = "single_ops"
    /\ IF opi > Len(operations_to_run)
       THEN /\ pc' = "single_return"
            /\ log' = log
       ELSE /\ pc' = "fill"
            /\ log' = Append(log, <<"start", tax_config.code, operations_to_run[opi].name>>)
    /\ UNCHANGED <<env, gui, stop_requested, mtime, nav, grid, file_path, files, lastPersisted, progress, ret, args, idx, opi, browser,
                   profiles, portal, uuids, runs, attempt, export_time, row, loaded>>

(* ------------------------- steps of one variant ------------------------ *)

\* a UI-driver step of the variant: it returns, or it raises
UiStep(here, next) ==
    /\ pc = here
    /\ \/ /\ ~portal.sessionLost
          /\ pc' = next
       \/ pc' = Handler
    /\ UNCHANGED <<env, gui, stop_requested, mtime, nav, grid, file_path, files, lastPersisted, progress, ret, args, idx, opi, browser,
                   profiles, portal, log, uuids, runs, attempt, export_time, row, loaded>>

\* _fill_consulta_form
FillConsultaForm == UiStep("fill", "consultar")

\* _click_consultar
ClickConsultar == UiStep("consultar", "export")

\* the portal takes the export request of the running variant
Requested(g, tax_code) ==
    IF env.grid = "feed"
    THEN [g EXCEPT !.requested = Append(@, tax_code)]
    ELSE g

\* _export_csv: the CSV option is clicked and the portal starts the export,
\* or the step raises
ExportCsv ==
    /\ pc = "export"
    /\ \/ /\ ~portal.sessionLost
          /\ pc' = "popup"
          /\ grid' = Requested(grid, cur_tax_code)
       \/ /\ pc' = Handler
          /\ grid' = grid
    /\ UNCHANGED <<env, gui, stop_requested, mtime, nav, file_path, files, lastPersisted, progress, ret, args, idx, opi,
                   browser, profiles, portal, log, uuids, runs, attempt, export_time, row,
                   loaded>>

\* _handle_export_popup
HandleExportPopup == UiStep("popup", "wait")

(* ------------------------ _wait_and_download_file ---------------------- *)

\* line 852
tax_number(tax_code) ==
    IF str_in("_", tax_code) THEN str_split(tax_code, "_")[2] ELSE tax_code

\* line 854
max_attempts == MaxWaitMinutes * 6

\* line 920
has_tax(r, tax_code) ==
    IF r.filtros # "" THEN str_in(tax_number(tax_code), r.filtros) ELSE FALSE

\* is_finalizado taking any status text for Finalizado
is_finalizado_AnyStatus(r) == r.estado # ""

\* line 921
is_finalizado(r) ==
    IF r.estado # "" THEN str_in("Finalizado", r.estado) ELSE FALSE

\* (export_time - file_timestamp).total_seconds()
SecondsBetween(et, ts) == (MinuteOf(et) - MinuteOf(ts)) * 60 + et.S

Abs(n) == IF n < 0 THEN 0 - n ELSE n

\* is_recent with the abs() of line 932 left out
is_recent_NoAbs(r, et) ==
    IF r.timestamp # ""
    THEN LET file_timestamp == strptime_stamp(str_strip(r.timestamp)) IN
         IF file_timestamp.ok
         THEN SecondsBetween(et, file_timestamp) <= 5 * 60
         ELSE TRUE
    ELSE FALSE

\* lines 924-939: time_diff is in minutes, the window is 5 minutes
is_recent(r, et) ==
    IF r.timestamp # ""
    THEN LET file_timestamp == strptime_stamp(str_strip(r.timestamp)) IN
         IF file_timestamp.ok
         THEN Abs(SecondsBetween(et, file_timestamp)) <= 5 * 60
         ELSE TRUE
    ELSE FALSE

\* line 944
Matches(r, tax_code, et) ==
    r.present /\ has_tax(r, tax_code) /\ is_finalizado(r) /\ is_recent(r, et)

\* what row-index 0 shows at attempt i of a call against a fixture feed
ScriptRow(i) == IF i <= env.script.upto THEN env.script.first ELSE env.script.then

\* FirstRows taking any row of the followed grid, not only row-index 0
FirstRows_AnyRow ==
    CASE env.grid = "any" -> env.rows
      [] env.grid = "feed" -> IF grid.rows = << >> THEN {NoRow} ELSE Range(grid.rows)
      [] env.grid = "script" -> {ScriptRow(attempt + 1)}

\* lines 879-885: what row-index 0 of the grid shows at the poll being made:
\* any row of the behaviour's set, the newest entry of the followed grid, or
\* the row a fixture feed gives for this attempt
FirstRows ==
    CASE env.grid = "any" -> env.rows
      [] env.grid = "feed" -> {IF grid.rows = << >> THEN NoRow ELSE grid.rows[1]}
      [] env.grid = "script" -> {ScriptRow(attempt + 1)}

\* lines 841-862: the tab click is best effort; the reference time is taken
\* after the initial wait
WaitStart ==
    /\ pc = "wait"
    /\ attempt' = 0
    /\ \E now \in env.times : export_time' = <<now>>
    /\ row' = NoRow
    /\ pc' = "poll"
    /\ UNCHANGED <<env, gui, stop_requested, mtime, nav, grid, file_path, files, lastPersisted, progress, ret, args, idx, opi, browser,
                   profiles, portal, log, uuids, runs, loaded>>

\* Poll giving up at the first attempt that finds no row in the grid
Poll_AbortOnNoRow ==
    /\ pc = "poll"
    /\ IF attempt >= max_attempts
       THEN /\ pc' = Handler
            /\ attempt' = 0
            /\ export_time' = << >>
            /\ row' = NoRow
       ELSE /\ export_time' = export_time
            /\ \E r \in (IF portal.sessionLost THEN {NoRow} ELSE FirstRows) :
                 /\ row' = (IF Matches(r, cur_tax_code, export_time[1]) THEN r ELSE NoRow)
                 /\ pc' = (IF ~r.present THEN Handler
                           ELSE IF Matches(r, cur_tax_code, export_time[1]) THEN "download"
                           ELSE "poll")
                 /\ attempt' = (IF ~r.present THEN 0 ELSE attempt + 1)
    /\ UNCHANGED <<env, gui, stop_requested, mtime, nav, grid, file_path, files, lastPersisted, progress, ret, args, idx, opi, browser,
                   profiles, portal, log, uuids, runs, loaded>>

\* lines 864-946 and 988-1002: one polling attempt up to the match test, or
\* the timeout once the attempts are used up
Poll ==
    /\ pc = "poll"
    /\ IF attempt >= max_attempts
       THEN /\ pc' = Handler
            /\ attempt' = 0
            /\ export_time' = << >>
            /\ row' = NoRow
       ELSE /\ attempt' = attempt + 1
            /\ export_time' = export_time
            /\ \E r \in (IF portal.sessionLost THEN {NoRow} ELSE FirstRows) :
                 /\ IF Matches(r, cur_tax_code, export_time[1])
                    THEN pc' = "download" /\ row' = r
                    ELSE pc' = "poll" /\ row' = NoRow
    /\ UNCHANGED <<env, gui, stop_requested, mtime, nav, grid, file_path, files, lastPersisted, progress, ret, args, idx, opi, browser,
                   profiles, portal, log, uuids, runs, loaded>>

RECURSIVE IntToStr(_)
IntToStr(n) ==
    IF n < 10 THEN CHOOSE c \in Digits : DigitVal[c] = n
    ELSE IntToStr(n \div 10) \o IntToStr(n % 10)

\* lines 969-974: the name the artifact is saved under; stamp stands for the
\* clock reading datetime.now() of the name, which grows from save to save
SavePath(tax_code, cuit_target, fecha_desde, fecha_hasta, stamp) ==
    "MR_" \o tax_code \o "_" \o cuit_target \o "_" \o str_remove(fecha_desde, "/")
      \o "_" \o str_remove(fecha_hasta, "/") \o "_" \o IntToStr(stamp) \o ".csv"

Saved == {log[i][2] : i \in {j \in 1..Len(log) : log[j][1] = "saved"}}

\* Download letting a download timeout or a save error leave the function
Download_Propagate ==
    /\ pc = "download"
    /\ \/ /\ ~portal.sessionLost
          /\ file_path' = SavePath(cur_tax_code, args.cuit_target, args.fecha_desde,
                                   args.fecha_hasta, runs * 100 + Cardinality(Saved))
          /\ pc' = "downloaded"
          /\ attempt' = 0
          /\ export_time' = << >>
          /\ row' = NoRow
       \/ /\ pc' = Handler
          /\ row' = NoRow
          /\ UNCHANGED <<file_path, attempt, export_time>>
    /\ UNCHANGED <<env, gui, stop_requested, mtime, nav, grid, files, lastPersisted, progress, ret, args, idx, opi, browser,
                   profiles, portal, log, uuids, runs, loaded>>

\* lines 947-986: the matched row's artifact is fetched and saved and its
\* path returned; a missing link, a download timeout or any other error
\* leads to the next attempt
Download ==
    /\ pc = "download"
    /\ \/ /\ ~portal.sessionLost
          /\ file_path' = SavePath(cur_tax_code, args.cuit_target, args.fecha_desde,
                                   args.fecha_hasta, runs * 100 + Cardinality(Saved))
          /\ pc' = "downloaded"
          /\ attempt' = 0
          /\ export_time' = << >>
          /\ row' = NoRow
       \/ /\ pc' = "poll"
          /\ row' = NoRow
          /\ UNCHANGED <<file_path, attempt, export_time>>
    /\ UNCHANGED <<env, gui, stop_requested, mtime, nav, grid, files, lastPersisted, progress, ret, args, idx, opi, browser,
                   profiles, portal, log, uuids, runs, loaded>>

\* lines 1284-1285: the path is appended and the checkpoint saved
BatchAppend ==
    /\ pc = "downloaded" /\ args.mode = "batch"
    /\ progress' = <<[P EXCEPT !.all_downloaded_files = Append(@, file_path)]>>
    /\ log' = Append(log, <<"saved", file_path>>)
    /\ file_path' = None
    /\ pc' = "save_open"
    /\ ret' = "after_variant"
    /\ UNCHANGED <<env, gui, stop_requested, mtime, nav, grid, files, lastPersisted, args, idx, opi, browser,
                   profiles, portal, uuids, runs, attempt, export_time, row, loaded>>

(* ----------------------- after a variant, after an item ---------------- *)

\* _navigate_to_nueva_consulta: the click is attempted, every failure is caught
NavigateToNuevaConsulta(l) == Append(l, <<"nav">>)

\* lines 1287-1291: the variant succeeded
BatchAfterVariant ==
    /\ pc = "after_variant"
    /\ LET op == operations_to_run[opi]
           done == Append(log, <<"ok", tax_config.code, op.name>>)
       IN log' = IF op.value # operations_to_run[Len(operations_to_run)].value
                    \/ idx < Len(Plan)
                 THEN NavigateToNuevaConsulta(done)
                 ELSE done
    /\ opi' = opi + 1
    /\ pc' = "ops"
    /\ UNCHANGED <<env, gui, stop_requested, mtime, nav, grid, file_path, files, lastPersisted, progress, ret, args, idx, browser,
                   profiles, portal, uuids, runs, attempt, export_time, row, loaded>>

\* BatchVariantExcept letting the exception leave the loop
BatchVariantExcept_Propagate ==
    /\ pc = "variant_except"
    /\ log' = NavigateToNuevaConsulta(
                Append(log, <<"error", tax_config.code, operations_to_run[opi].name>>))
    /\ browser' = "closed"
    /\ pc' = "except"
    /\ UNCHANGED <<env, gui, stop_requested, mtime, nav, grid, file_path, files, lastPersisted, progress, ret, args, idx, opi,
                   profiles, portal, uuids, runs, attempt, export_time, row, loaded>>

\* lines 1293-1299: any exception of the variant is logged, the form is
\* returned to, and the loop goes on with the next variant
BatchVariantExcept ==
    /\ pc = "variant_except"
    /\ log' = NavigateToNuevaConsulta(
                Append(log, <<"error", tax_config.code, operations_to_run[opi].name>>))
    /\ opi' = opi + 1
    /\ pc' = "ops"
    /\ UNCHANGED <<env, gui, stop_requested, mtime, nav, grid, file_path, files, lastPersisted, progress, ret, args, idx, browser,
                   profiles, portal, uuids, runs, attempt, export_time, row, loaded>>

\* BatchItemDone without line 1303: current_tax_code is left as it is
BatchItemDone_KeepCurrent ==
    /\ pc = "item_done"
    /\ progress' = <<[P EXCEPT !.completed_tax_codes = Append(@, tax_config.code)]>>
    /\ log' = Append(log, <<"done", tax_config.code>>)
    /\ idx' = idx + 1
    /\ pc' = "save_open"
    /\ ret' = "loop"
    /\ UNCHANGED <<env, gui, stop_requested, mtime, nav, grid, file_path, files, lastPersisted, args, opi, browser,
                   profiles, portal, uuids, runs, attempt, export_time, row, loaded>>

\* lines 1301-1307: the item is recorded as completed and the checkpoint saved
BatchItemDone ==
    /\ pc = "item_done"
    /\ progress' = <<[P EXCEPT !.completed_tax_codes = Append(@, tax_config.code),
                               !.current_tax_code = None]>>
    /\ log' = Append(log, <<"done", tax_config.code>>)
    /\ idx' = idx + 1
    /\ pc' = "save_open"
    /\ ret' = "loop"
    /\ UNCHANGED <<env, gui, stop_requested, mtime, nav, grid, file_path, files, lastPersisted, args, opi, browser,
                   profiles, portal, uuids, runs, attempt, export_time, row, loaded>>

\* lines 1309-1311
BatchAllDone ==
    /\ pc = "all_done"
    /\ progress' = <<[P EXCEPT !.status = "completed"]>>
    /\ pc' = "save_open"
    /\ ret' = "return"
    /\ UNCHANGED <<env, gui, stop_requested, mtime, nav, grid, file_path, files, lastPersisted, args, idx, opi, browser, log,
                   profiles, portal, uuids, runs, attempt, export_time, row, loaded>>

\* lines 1313-1329 and the finally block 1337-1346
BatchReturn ==
    /\ pc = "return"
    /\ log' = Append(log, <<"return", P.session_id, Len(P.completed_tax_codes)>>)
    /\ profiles' = IF P.status = "completed"
                   THEN profiles \ {"studioai_mr_batch_" \o P.session_id}
                   ELSE profiles
    /\ pc' = "returned"
    /\ EndOfCall
    /\ UNCHANGED <<env, gui, mtime, nav, grid, files, lastPersisted, args, portal, uuids, runs, loaded>>

\* lines 1331-1333: an exception that left the loop or the session set-up
BatchExcept ==
    /\ pc = "except"
    /\ progress' = <<[P EXCEPT !.status = "error"]>>
    /\ pc' = "save_open"
    /\ ret' = "reraise"
    /\ UNCHANGED <<env, gui, stop_requested, mtime, nav, grid, file_path, files, lastPersisted, args, idx, opi, browser, log,
                   profiles, portal, uuids, runs, attempt, export_time, row, loaded>>

\* BatchReraise with a finally block that removes the profile whatever the status
BatchReraise_RemoveProfile ==
    /\ pc = "reraise"
    /\ log' = Append(log, <<"fatal">>)
    /\ profiles' = profiles \ {"studioai_mr_batch_" \o P.session_id}
    /\ pc' = "raised"
    /\ EndOfCall
    /\ UNCHANGED <<env, gui, mtime, nav, grid, files, lastPersisted, args, portal, uuids, runs, loaded>>

\* lines 1334-1346: the exception is raised again; the finally block keeps
\* the profile unless the status is completed
BatchReraise ==
    /\ pc = "reraise"
    /\ log' = Append(log, <<"fatal">>)
    /\ profiles' = IF P.status = "completed"
                   THEN profiles \ {"studioai_mr_batch_" \o P.session_id}
                   ELSE profiles
    /\ pc' = "raised"
    /\ EndOfCall
    /\ UNCHANGED <<env, gui, mtime, nav, grid, files, lastPersisted, args, portal, uuids, runs, loaded>>

(* --------------------------- single-item run --------------------------- *)

\* lines 1103-1110: the path is appended to downloaded_files; between two
\* variants the form tab is clicked, unguarded
SingleAfter ==
    /\ pc = "downloaded" /\ args.mode = "single"
    /\ log' = Append(log, <<"saved", file_path>>)
    /\ file_path' = None
    /\ IF Len(operations_to_run) > 1
          /\ operations_to_run[opi].value # operations_to_run[Len(operations_to_run)].value
       THEN \/ /\ ~portal.sessionLost
               /\ pc' = "single_ops"
               /\ opi' = opi + 1
            \/ /\ pc' = "single_finally"
               /\ opi' = opi
       ELSE /\ pc' = "single_ops"
            /\ opi' = opi + 1
    /\ UNCHANGED <<env, gui, stop_requested, mtime, nav, grid, files, lastPersisted, progress, ret, args, idx, browser,
                   profiles, portal, uuids, runs, attempt, export_time, row, loaded>>

\* lines 1112-1130: the result is returned; finally removes the profile
SingleReturn ==
    /\ pc = "single_return"
    /\ log' = Append(log, <<"return", "", Cardinality(Saved)>>)
    /\ profiles' = profiles \ {SingleProfile}
    /\ pc' = "returned"
    /\ EndOfCall
    /\ UNCHANGED <<env, gui, mtime, nav, grid, files, lastPersisted, args, portal, uuids, runs, loaded>>

\* lines 1125-1130 on an exception: finally removes the profile
SingleFinally ==
    /\ pc = "single_finally"
    /\ profiles' = profiles \ {SingleProfile}
    /\ pc' = "raised"
    /\ EndOfCall
    /\ UNCHANGED <<env, gui, mtime, nav, grid, files, lastPersisted, args, portal, log, uuids, runs, loaded>>

(* ------------------------------- crash --------------------------------- *)

\* the process is killed (power loss, kill, closed window): nothing of the
\* call runs any more, the files stay as they are at that moment
Crash ==
    /\ Running
    /\ pc' = "crashed"
    /\ EndOfCall
    /\ UNCHANGED <<env, gui, mtime, nav, grid, files, lastPersisted, args, profiles, portal, log, uuids, runs, loaded>>

\* scrape_mis_retenciones_batch with everything it calls
BatchNext ==
    \/ Call
    \/ BatchValidate
    \/ BatchLoad
    \/ BatchCreate
    \/ BatchMkProfile
    \/ Launch
    \/ SessionLoss
    \/ AfipLogin
    \/ OpenMisRetenciones
    \/ SelectCuitRepresentado
    \/ BatchLoop
    \/ BatchOps
    \/ FillConsultaForm
    \/ ClickConsultar
    \/ ExportCsv
    \/ HandleExportPopup
    \/ WaitStart
    \/ Poll
    \/ Download
    \/ BatchAppend
    \/ BatchAfterVariant
    \/ BatchVariantExcept
    \/ BatchItemDone
    \/ BatchAllDone
    \/ BatchReturn
    \/ BatchExcept
    \/ BatchReraise
    \/ SaveOpen
    \/ SaveDump
    \/ Crash

\* the user asks for the running batch to stop while an item that is not
\* the last one is in progress.
\* start_batch_worker disables the buttons of the form for the time of the
\* run and passes the coroutine nothing it could look at: the request reaches
\* no code
StopRequest ==
    /\ args.mode = "batch"
    /\ Running
    /\ progress # << >>
    /\ P.current_tax_code # None
    /\ idx < Len(Plan)
    /\ ~stop_requested
    /\ stop_requested' = TRUE
    /\ UNCHANGED <<env, gui, mtime, nav, grid, file_path, files, lastPersisted, progress, pc, ret, args,
                   idx, opi, browser, profiles, portal, log, uuids, runs, attempt, export_time,
                   row, loaded>>

Next == BatchNext \/ OnResume \/ StopRequest

Spec == Init /\ [][Next]_vars

\* one call of either entry point, with every date range a caller may pass
InitEntry ==
    /\ Start
    /\ env = [modes |-> {"batch", "single"}, calls |-> 1,
              ranges |-> DateRanges, rows |-> BatchRows, times |-> BatchTimes,
              grid |-> "any"]

NextEntry ==
    \/ BatchNext
    \/ SingleValidate
    \/ SingleConfig
    \/ SingleOps
    \/ SingleAfter
    \/ SingleReturn
    \/ SingleFinally

SpecEntry == InitEntry /\ [][NextEntry]_vars

(* ---------------- navigate_calendar_to_date_with_arrows ---------------- *)

\* line 247
nav_max_attempts == 36

\* lines 250-253
month_names_en == <<"January", "February", "March", "April", "May", "June",
                    "July", "August", "September", "October", "November", "December">>

month_names_es == <<"Enero", "Febrero", "Marzo", "Abril", "Mayo", "Junio",
                    "Julio", "Agosto", "Septiembre", "Octubre", "Noviembre", "Diciembre">>

UpperCase == "ABCDEFGHIJKLMNOPQRSTUVWXYZ"

LowerCase == "abcdefghijklmnopqrstuvwxyz"

LowerMap == [c \in {Chr(UpperCase, k) : k \in 1..26} |->
               Chr(LowerCase, CHOOSE k \in 1..26 : Chr(UpperCase, k) = c)]

\* Python: c.lower() for one character
LowerChr(c) == IF c \in DOMAIN LowerMap THEN LowerMap[c] ELSE c

\* Python: s.lower()
RECURSIVE str_lower(_)
str_lower(s) ==
    IF Len(s) = 0 THEN "" ELSE LowerChr(Chr(s, 1)) \o str_lower(SubSeq(s, 2, Len(s)))

\* Python: sub in s.lower(), for a lower-case sub
lower_in(sub, s) ==
    \E i \in 1..(Len(s) - Len(sub) + 1) :
        \A j \in 1..Len(sub) : LowerChr(Chr(s, i + j - 1)) = Chr(sub, j)

\* lines 256-260: the keys of month_map in the order they are inserted, three
\* for each month: the English name, the Spanish name, the English short form
month_map ==
    [k \in 1..36 |->
        LET i == ((k - 1) \div 3) + 1 IN
        [name |-> CASE k % 3 = 1 -> str_lower(month_names_en[i])
                    [] k % 3 = 2 -> str_lower(month_names_es[i])
                    [] k % 3 = 0 -> str_lower(SubSeq(month_names_en[i], 1, 3)),
         num |-> i]]

\* regular expressions: \w and \b
WordChr(c) == c \in Digits \/ c = "_" \/ c \in DOMAIN LowerMap
                \/ c \in {LowerMap[u] : u \in DOMAIN LowerMap}

\* \b between positions i and i + 1 of s
Boundary(s, i) ==
    (i >= 1 /\ i <= Len(s) /\ WordChr(Chr(s, i)))
      # (i + 1 >= 1 /\ i + 1 <= Len(s) /\ WordChr(Chr(s, i + 1)))

\* line 277: re.search(r'\b(20\d{2})\b', title_text); 0 stands for no match
year_match(s) ==
    LET at == {i \in 1..(Len(s) - 3) :
                 /\ Boundary(s, i - 1)
                 /\ SubSeq(s, i, i + 1) = "20"
                 /\ Chr(s, i + 2) \in Digits /\ Chr(s, i + 3) \in Digits
                 /\ Boundary(s, i + 3)}
    IN IF at = {} THEN 0
       ELSE LET i == CHOOSE i \in at : \A j \in at : i <= j
            IN 2000 + 10 * DigitVal[Chr(s, i + 2)] + DigitVal[Chr(s, i + 3)]

\* what \b(0?[1-9]|1[0-2])\b matches at position i of s, 0 for no match
MonthNumeralAt(s, i) ==
    IF ~Boundary(s, i - 1) THEN 0
    ELSE IF Chr(s, i) = "0" /\ i + 1 <= Len(s) /\ Chr(s, i + 1) \in Digits \ {"0"}
            /\ Boundary(s, i + 1)
    THEN DigitVal[Chr(s, i + 1)]
    ELSE IF Chr(s, i) \in Digits \ {"0"} /\ Boundary(s, i)
    THEN DigitVal[Chr(s, i)]
    ELSE IF Chr(s, i) = "1" /\ i + 1 <= Len(s) /\ Chr(s, i + 1) \in {"0", "1", "2"}
            /\ Boundary(s, i + 1)
    THEN 10 + DigitVal[Chr(s, i + 1)]
    ELSE 0

\* line 295: re.search(r'\b(0?[1-9]|1[0-2])\b', title_text); 0 for no match
month_match(s) ==
    LET at == {i \in 1..Len(s) : MonthNumeralAt(s, i) > 0}
    IN IF at = {} THEN 0
       ELSE MonthNumeralAt(s, CHOOSE i \in at : \A j \in at : i <= j)

\* lines 284-299: the first key of month_map found in the lower-cased title
\* gives the month, else the numeral does; 0 stands for the ValueError
current_month(s) ==
    LET hits == {k \in 1..36 : lower_in(month_map[k].name, s)}
    IN IF hits # {} THEN month_map[CHOOSE k \in hits : \A j \in hits : k <= j].num
       ELSE month_match(s)

\* the titles a v-calendar shows for a month, by locale
TitleStyles == {"es", "en", "num"}

Title(shown, style) ==
    LET year == (shown - 1) \div 12
        month == ((shown - 1) % 12) + 1
    IN CASE style = "es" -> month_names_es[month] \o " " \o IntToStr(year)
         [] style = "en" -> month_names_en[month] \o " " \o IntToStr(year)
         [] style = "num" -> (IF month < 10 THEN "0" ELSE "") \o IntToStr(month)
                               \o "/" \o IntToStr(year)

\* titles with no year, with no month
BadTitles == {"Cargando...", "2024"}

\* the widgets: one that moves a month a click, one whose title never
\* changes, one whose reads and clicks may raise and whose title may be
\* unreadable (followed from "Marzo 2024" to (2024, 5))
Widgets == {"ok", "stuck", "flaky"}

\* targets (year, month) and months the widget shows when the call starts
NavTargets == {<<2024, 5>>, <<2024, 1>>}

NavShown == {2024 * 12 + 3, 2024 * 12 + 5, 2024 * 12 + 7, 2023 * 12 + 12,
             2021 * 12 + 5, 2021 * 12 + 6, 2027 * 12 + 1}

\* navigate_calendar_to_date_with_arrows(page, target_year, target_month)
CallNavigate ==
    /\ pc = "idle"
    /\ env.modes = {"nav"}
    /\ runs < env.calls
    /\ \E t \in NavTargets, sh \in NavShown :
         /\ env.widget = "flaky" => t = <<2024, 5>> /\ sh = 2024 * 12 + 3
         /\ nav' = [NoNav EXCEPT !.target_year = t[1], !.target_month = t[2], !.shown = sh]
    /\ args' = [NoArgs EXCEPT !.mode = "nav"]
    /\ runs' = runs + 1
    /\ pc' = "nav_loop"
    /\ UNCHANGED <<env, gui, stop_requested, mtime, grid, file_path, files, lastPersisted, progress, ret, idx, opi, browser,
                   profiles, portal, log, uuids, attempt, export_time, row, loaded>>

\* NavLoop letting one more iteration in
NavLoop_OneMore ==
    /\ pc = "nav_loop"
    /\ IF nav.attempts <= nav_max_attempts
       THEN /\ nav' = [nav EXCEPT !.attempts = @ + 1]
            /\ pc' = "nav_read"
       ELSE /\ nav' = [nav EXCEPT !.outcome = "TimeoutError"]
            /\ pc' = "nav_done"
    /\ UNCHANGED <<env, gui, stop_requested, mtime, grid, file_path, files, lastPersisted, progress, ret, args, idx, opi,
                   browser, profiles, portal, log, uuids, runs, attempt, export_time, row,
                   loaded>>

\* lines 262-263 and 343: the head of the loop, and the TimeoutError after it
NavLoop ==
    /\ pc = "nav_loop"
    /\ IF nav.attempts < nav_max_attempts
       THEN /\ nav' = [nav EXCEPT !.attempts = @ + 1]
            /\ pc' = "nav_read"
       ELSE /\ nav' = [nav EXCEPT !.outcome = "TimeoutError"]
            /\ pc' = "nav_done"
    /\ UNCHANGED <<env, gui, stop_requested, mtime, grid, file_path, files, lastPersisted, progress, ret, args, idx, opi,
                   browser, profiles, portal, log, uuids, runs, attempt, export_time, row,
                   loaded>>

\* lines 266-273: the title is waited for and read; the read can raise
NavRead ==
    /\ pc = "nav_read"
    /\ \/ /\ nav' = [nav EXCEPT !.reads = @ + 1,
                                 !.title_text = Title(nav.shown, env.style)]
          /\ pc' = "nav_parse"
       \/ /\ env.widget = "flaky"
          /\ \E t \in BadTitles : nav' = [nav EXCEPT !.reads = @ + 1, !.title_text = t]
          /\ pc' = "nav_parse"
       \/ /\ env.widget = "flaky"
          /\ nav' = [nav EXCEPT !.reads = @ + 1]
          /\ pc' = "nav_except"
    /\ UNCHANGED <<env, gui, stop_requested, mtime, grid, file_path, files, lastPersisted, progress, ret, args, idx, opi,
                   browser, profiles, portal, log, uuids, runs, attempt, export_time, row,
                   loaded>>

\* NavParse with no test for the target
NavParse_NoTargetTest ==
    /\ pc = "nav_parse"
    /\ \E year \in {year_match(nav.title_text)}, month \in {current_month(nav.title_text)} :
         IF year = 0 \/ month = 0
         THEN /\ nav' = [nav EXCEPT !.parse_failed = TRUE]
              /\ pc' = "nav_except"
         ELSE /\ nav' = [nav EXCEPT !.current_year = year, !.current_month = month]
              /\ pc' = "nav_click"
    /\ UNCHANGED <<env, gui, stop_requested, mtime, grid, file_path, files, lastPersisted, progress, ret, args, idx, opi,
                   browser, profiles, portal, log, uuids, runs, attempt, export_time, row,
                   loaded>>

\* lines 275-309: the year and the month are parsed from the title, a
\* failure raises ValueError inside the try; at the target the call returns
NavParse ==
    /\ pc = "nav_parse"
    /\ \E year \in {year_match(nav.title_text)}, month \in {current_month(nav.title_text)} :
         IF year = 0 \/ month = 0
         THEN /\ nav' = [nav EXCEPT !.parse_failed = TRUE]
              /\ pc' = "nav_except"
         ELSE IF year = nav.target_year /\ month = nav.target_month
         THEN /\ nav' = [nav EXCEPT !.current_year = year, !.current_month = month,
                                    !.outcome = "True"]
              /\ pc' = "nav_done"
         ELSE /\ nav' = [nav EXCEPT !.current_year = year, !.current_month = month]
              /\ pc' = "nav_click"
    /\ UNCHANGED <<env, gui, stop_requested, mtime, grid, file_path, files, lastPersisted, progress, ret, args, idx, opi,
                   browser, profiles, portal, log, uuids, runs, attempt, export_time, row,
                   loaded>>

\* lines 311-313
current_date == nav.current_year * 12 + nav.current_month

target_date == nav.target_year * 12 + nav.target_month

\* the widget after a click on an arrow
Moved(by) == IF env.widget = "stuck" THEN nav.shown ELSE nav.shown + by

\* lines 311-332: the arrow of the direction is waited for and clicked; the
\* wait and the click can raise
NavClick ==
    /\ pc = "nav_click"
    /\ \/ /\ IF current_date > target_date
             THEN nav' = [nav EXCEPT !.left = @ + 1, !.shown = Moved(-1)]
             ELSE nav' = [nav EXCEPT !.right = @ + 1, !.shown = Moved(1)]
          /\ pc' = "nav_loop"
       \/ /\ env.widget = "flaky"
          /\ nav' = nav
          /\ pc' = "nav_except"
    /\ UNCHANGED <<env, gui, stop_requested, mtime, grid, file_path, files, lastPersisted, progress, ret, args, idx, opi,
                   browser, profiles, portal, log, uuids, runs, attempt, export_time, row,
                   loaded>>

\* lines 334-341: every exception of the iteration is caught; on the last
\* attempt TimeoutError is raised, else the loop goes on
NavExcept ==
    /\ pc = "nav_except"
    /\ IF nav.attempts >= nav_max_attempts
       THEN /\ nav' = [nav EXCEPT !.outcome = "TimeoutError"]
            /\ pc' = "nav_done"
       ELSE /\ nav' = nav
            /\ pc' = "nav_loop"
    /\ UNCHANGED <<env, gui, stop_requested, mtime, grid, file_path, files, lastPersisted, progress, ret, args, idx, opi,
                   browser, profiles, portal, log, uuids, runs, attempt, export_time, row,
                   loaded>>

\* one call of navigate_calendar_to_date_with_arrows on each widget
InitCalendar ==
    /\ Start
    /\ \E w \in Widgets, st \in TitleStyles :
         /\ w = "flaky" => st = "es"
         /\ env = [modes |-> {"nav"}, calls |-> 1, ranges |-> {}, rows |-> {NoRow},
                   times |-> BatchTimes, grid |-> "any", widget |-> w, style |-> st]

NextCalendar ==
    \/ CallNavigate
    \/ NavLoop
    \/ NavRead
    \/ NavParse
    \/ NavClick
    \/ NavExcept

SpecCalendar == InitCalendar /\ [][NextCalendar]_vars

\* the waits, reads and clicks of the loop have timeouts and the sleeps
\* end, so a call that has started goes on to its next step
SpecCalendarLive ==
    /\ SpecCalendar
    /\ WF_vars(NavLoop) /\ WF_vars(NavRead) /\ WF_vars(NavParse)
    /\ WF_vars(NavClick) /\ WF_vars(NavExcept)

(* ----------------- labels that name two months ------------------------ *)

\* a title that holds the long name of one month and the abbreviation of
\* another one, in either order
MixedLabel(long, abbr, order) ==
    IF order = "long first"
    THEN long \o " (" \o abbr \o ") 2024"
    ELSE abbr \o ". / " \o long \o " 2024"

\* lines 266-273 for such a title: the first read of a call gives it
ReadLabel ==
    /\ pc = "idle"
    /\ env.modes = {"label"}
    /\ \E i \in 1..12, j \in 1..12, names \in {month_names_en, month_names_es},
          order \in {"long first", "abbr first"}, t \in NavTargets :
         /\ i # j
         /\ nav' = [NoNav EXCEPT !.target_year = t[1], !.target_month = t[2],
                                 !.shown = 2024 * 12 + i, !.attempts = 1, !.reads = 1,
                                 !.title_text = MixedLabel(names[i],
                                                           SubSeq(month_names_en[j], 1, 3),
                                                           order)]
    /\ args' = [NoArgs EXCEPT !.mode = "nav"]
    /\ runs' = runs + 1
    /\ pc' = "nav_parse"
    /\ UNCHANGED <<env, gui, stop_requested, mtime, grid, file_path, files, lastPersisted, progress, ret, idx, opi, browser,
                   profiles, portal, log, uuids, attempt, export_time, row, loaded>>

InitLabel ==
    /\ Start
    /\ env = [modes |-> {"label"}, calls |-> 1, ranges |-> {}, rows |-> {NoRow},
              times |-> BatchTimes, grid |-> "any", widget |-> "ok", style |-> "es"]

\* the parse of the month of a title that names two months
SpecLabel == InitLabel /\ [][ReadLabel \/ NavParse]_vars

(* ------------------ the grid of exported queries ----------------------- *)

\* the entry the grid shows for the job-th export of the run; the grid's
\* timestamp has minutes only, and the exports of the run fall into the
\* minute in which the polling starts
Entry(job, tax_code, estado) ==
    [present |-> TRUE, filtros |-> "Impuesto: " \o tax_number(tax_code), estado |-> estado,
     timestamp |-> "15/11/2025 19:51", job |-> job]

\* the portal works asynchronously: the entry of a requested export comes
\* up at the top of the grid at some moment after the request, in process
\* or already finished (lines 856-859 wait 5 seconds for it)
PortalPublish ==
    /\ env.grid = "feed"
    /\ Len(grid.rows) < Len(grid.requested)
    /\ \E estado \in {"Procesando", "Finalizado"} :
         LET job == Len(grid.rows) + 1 IN
         grid' = [grid EXCEPT !.rows = <<Entry(job, grid.requested[job], estado)>> \o @]
    /\ UNCHANGED <<env, gui, stop_requested, mtime, nav, file_path, files, lastPersisted, progress, pc, ret, args, idx, opi,
                   browser, profiles, portal, log, uuids, runs, attempt, export_time, row,
                   loaded>>

\* the portal finishes an export in process
PortalFinish ==
    /\ env.grid = "feed"
    /\ \E i \in 1..Len(grid.rows) :
         /\ grid.rows[i].estado = "Procesando"
         /\ grid' = [grid EXCEPT !.rows[i].estado = "Finalizado"]
    /\ UNCHANGED <<env, gui, stop_requested, mtime, nav, file_path, files, lastPersisted, progress, pc, ret, args, idx, opi,
                   browser, profiles, portal, log, uuids, runs, attempt, export_time, row,
                   loaded>>

\* one batch run against a portal whose grid is followed entry by entry
InitFeed ==
    /\ Start
    /\ env = [modes |-> {"batch"}, calls |-> 1,
              ranges |-> {<<"01/01/2024", "31/01/2024">>}, rows |-> {NoRow},
              times |-> BatchTimes, grid |-> "feed"]

NextFeed ==
    \/ BatchNext
    \/ PortalPublish
    \/ PortalFinish

SpecFeed == InitFeed /\ [][NextFeed]_vars

\* the rows of the fixture feeds: no row, the request's entry in process
\* and finished, a finished entry of another tax, a finished entry of the
\* day before, and finished entries whose timestamp is not a date or was
\* not read
ScriptRows == {NoRow,
               Row(TRUE, "Impuesto: 219", "Procesando", "15/11/2025 19:51"),
               Row(TRUE, "Impuesto: 219", "Finalizado", "15/11/2025 19:51"),
               Row(TRUE, "Impuesto: 218", "Finalizado", "15/11/2025 19:51"),
               Row(TRUE, "Impuesto: 219", "Finalizado", "14/11/2025 19:51"),
               Row(TRUE, "Impuesto: 219", "Finalizado", "hace un momento"),
               Row(TRUE, "Impuesto: 219", "Finalizado", "")}

\* a fixture feed: row-index 0 shows one row up to some attempt and another
\* row from then on
Scripts ==
    { [first |-> r1, upto |-> k, then |-> r2] :
        r1 \in ScriptRows, r2 \in ScriptRows, k \in 0..max_attempts }

\* one call of _wait_and_download_file against a fixture feed
InitScript ==
    /\ Start
    /\ \E script \in Scripts :
         env = [modes |-> {"call"}, calls |-> 1,
                ranges |-> {<<"01/01/2024", "31/01/2024">>}, rows |-> {NoRow},
                times |-> BatchTimes, grid |-> "script", script |-> script]

\* one call of _wait_and_download_file against every first row the grid can show
InitCorrelator ==
    /\ Start
    /\ env = [modes |-> {"call"}, calls |-> 1,
              ranges |-> {<<"01/01/2024", "31/01/2024">>}, rows |-> Rows, times |-> ExportTimes,
              grid |-> "any"]

\* the call of _wait_and_download_file(page, tax_code, cuit_target, fecha_desde, fecha_hasta)
CallCorrelator ==
    /\ pc = "idle"
    /\ env.modes = {"call"}
    /\ runs < env.calls
    /\ \E tc \in CorrelatorCodes, ct \in CuitTargets, dr \in env.ranges :
         args' = [mode |-> "call", cuit_target |-> ct, tax_code |-> tc,
                  fecha_desde |-> dr[1], fecha_hasta |-> dr[2], resume_session_id |-> None]
    /\ runs' = runs + 1
    /\ pc' = "wait"
    /\ UNCHANGED <<env, gui, stop_requested, mtime, nav, grid, file_path, files, lastPersisted, progress, ret, idx, opi, browser,
                   profiles, portal, log, uuids, attempt, export_time, row, loaded>>

NextCorrelator ==
    \/ CallCorrelator
    \/ WaitStart
    \/ Poll
    \/ Download

SpecCorrelator == InitCorrelator /\ [][NextCorrelator]_vars

SpecScript == InitScript /\ [][NextCorrelator]_vars

\* the awaits of the polling loop return (every locator call has a timeout,
\* every sleep ends), so a call that has started goes on to its next step
SpecCorrelatorLive ==
    /\ SpecCorrelator
    /\ WF_vars(WaitStart) /\ WF_vars(Poll) /\ WF_vars(Download)

(* ======================= properties of the claims ====================== *)

IsPrefix(a, b) == Len(a) <= Len(b) /\ SubSeq(b, 1, Len(a)) = a

Events(kind) == SelectSeq(log, LAMBDA e : e[1] = kind)

\* the requests issued by the running call, in order: <<code, variant>>
Requests == [i \in 1..Len(Events("start")) |->
               <<Events("start")[i][2], Events("start")[i][3]>>]

\* codes of the items the running call marked as current, in order
ItemsStarted == [i \in 1..Len(Events("item")) |-> Events("item")[i][2]]

Variants(item) ==
    [k \in 1..Len(OperationsToRun(item.operation_mode)) |->
       <<item.code, OperationsToRun(item.operation_mode)[k].name>>]

\* every variant of every plan item from position i on whose code is not in K
RECURSIVE RequestsFrom(_, _)
RequestsFrom(i, K) ==
    IF i > Len(Plan) THEN << >>
    ELSE (IF Plan[i].code \in K THEN << >> ELSE Variants(Plan[i])) \o RequestsFrom(i + 1, K)

PlanIndex(code) == CHOOSE i \in 1..Len(Plan) : Plan[i].code = code

BatchCall == args.mode = "batch"

IsResume == BatchCall /\ args.resume_session_id \in SessionIds

\* the session the running batch call works on
RunSession == IF Events("new") # << >> THEN Events("new")[1][2] ELSE args.resume_session_id

\* completed_tax_codes as persisted for the resumed session before this call
PersistedCompleted ==
    IF loaded # << >> THEN Range(loaded[1].completed_tax_codes)
    ELSE IF lastPersisted[args.resume_session_id] # << >>
    THEN Range(lastPersisted[args.resume_session_id][1].completed_tax_codes)
    ELSE {}

\* C1: a call resuming a session whose record had been persisted issues
\* requests only for items that are not in the persisted completed_tax_codes,
\* in plan order, issues all of them when it runs to its end, and ends with
\* a completed_tax_codes that contains the persisted one.
C1_ResumeRunsOnlyIncomplete ==
    (IsResume /\ pc \notin {"validate", "load"}
       /\ lastPersisted[args.resume_session_id] # << >>)
    => /\ \A i \in 1..Len(Requests) : Requests[i][1] \notin PersistedCompleted
       /\ IsPrefix(Requests, RequestsFrom(1, PersistedCompleted))
       /\ pc = "returned" =>
            /\ Requests = RequestsFrom(1, PersistedCompleted)
            /\ PersistedCompleted \subseteq
                 Range(lastPersisted[RunSession][1].completed_tax_codes)

\* C2: the record a resuming call loads holds, as a prefix of its
\* all_downloaded_files, every path persisted for that session before.
C2_LoadedKeepsPersistedPaths ==
    (IsResume /\ pc = "create"
       /\ lastPersisted[args.resume_session_id] # << >>
       /\ lastPersisted[args.resume_session_id][1].all_downloaded_files # << >>)
    => /\ loaded # << >>
       /\ IsPrefix(lastPersisted[args.resume_session_id][1].all_downloaded_files,
                   loaded[1].all_downloaded_files)

\* C3: a call whose resume id names a stored record with a status other than
\* in_progress does not go on with that record: it works on a record with a
\* new session id and empty completed_tax_codes.
C3_TerminalRecordNotResumed ==
    (BatchCall /\ loaded # << >> /\ loaded[1].status # "in_progress"
       /\ pc \notin {"validate", "load", "create"} /\ progress # << >>)
    => /\ P.session_id # loaded[1].session_id
       /\ Events("new") # << >>

FreshStart == BatchCall /\ loaded = << >> /\ Events("new") # << >>

C5_TerminalRecordImmutable ==
    (pc = "save_open" /\ files[P.session_id].text # << >>
       /\ files[P.session_id].text[1].status \in {"completed", "error"})
    => LET stored == files[P.session_id].text[1] IN
       \/ P = stored
       \/ stored.status = "error" /\ P = [stored EXCEPT !.status = "in_progress"]

\* completed_tax_codes of the record the running call loaded
LoadedCompleted == IF loaded # << >> THEN Range(loaded[1].completed_tax_codes) ELSE {}

\* number of variants of the item with this code that ended before log position i
Ended(code, i) ==
    Cardinality({j \in 1..(i - 1) : log[j][1] \in {"ok", "error"} /\ log[j][2] = code})

\* C6: a failed variant is logged and followed by an attempt to return to
\* "Nueva consulta"; it never takes the batch to its fatal handler; the requests
\* follow the plan whatever failed, a run that returns has issued every
\* variant of every item it did not load as completed, and an item is marked
\* completed, with current_tax_code cleared, once each of its variants has
\* succeeded or failed.
C6_VariantFailureDoesNotAbort ==
    BatchCall =>
      /\ \A i \in 1..Len(log) :
           log[i][1] = "error" => i < Len(log) /\ log[i + 1] = <<"nav">>
      /\ Events("error") # << >> =>
           pc \notin {"except", "reraise", "raised"} /\ Events("fatal") = << >>
      /\ IsPrefix(Requests, RequestsFrom(1, LoadedCompleted))
      /\ \A i \in 1..Len(log) :
           log[i][1] = "done" =>
             Ended(log[i][2], i) = Len(Variants(Plan[PlanIndex(log[i][2])]))
      /\ (pc = "loop" /\ Events("done") # << >>) =>
           /\ P.current_tax_code = None
           /\ \A i \in 1..Len(ItemsStarted) : ItemsStarted[i] \in Range(P.completed_tax_codes)
      /\ pc = "returned" =>
           /\ Requests = RequestsFrom(1, LoadedCompleted)
           /\ \A i \in 1..Len(Plan) :
                Plan[i].code \in Range(lastPersisted[RunSession][1].completed_tax_codes)
           /\ lastPersisted[RunSession][1].current_tax_code = None

C6_Witness ==
    /\ BatchCall
    /\ pc = "returned"
    /\ \E i, j \in 1..Len(log) :
         /\ i < j
         /\ log[i][1] = "error" /\ log[j][1] = "start" /\ log[j][2] = log[i][2]
    /\ \E i, j \in 1..Len(log) :
         /\ i < j
         /\ log[i][1] = "error" /\ log[j][1] = "item" /\ log[j][2] # log[i][2]

\* C7: once the portal session is lost while an item is in flight the run
\* does not return normally, its record never gets status completed, and no
\* item after the one in flight is added to completed_tax_codes.
C7_SessionLossStopsRun ==
    (BatchCall /\ portal.lostDuring # None)
    => /\ pc \notin {"return", "returned"}
       /\ progress # << >> =>
            /\ P.status # "completed"
            /\ \A j \in 1..Len(Plan) :
                 j > PlanIndex(portal.lostDuring) =>
                   Plan[j].code \notin Range(P.completed_tax_codes)

SessionStepFailed ==
    \E i \in 1..Len(log) :
        log[i] \in {<<"failed", "login">>, <<"failed", "open">>, <<"cuit not selected">>}

\* C8: after a failed login, a failed opening of the service or a failed
\* selection of cuit_target no item is started, completed_tax_codes stays as
\* loaded, and the run ends raised with status error persisted.
C8_SessionSetupFailureIsFatal ==
    (BatchCall /\ SessionStepFailed)
    => /\ Events("item") = << >>
       /\ pc \notin {"return", "returned"}
       /\ progress # << >> => Range(P.completed_tax_codes) = LoadedCompleted
       /\ pc = "raised" => lastPersisted[RunSession][1].status = "error"

\* what the claim calls an invalid range, read off the parsed dates
Rejected(fecha_desde, fecha_hasta) ==
    LET d == strptime_date(fecha_desde)
        h == strptime_date(fecha_hasta)
    IN \/ ~d.ok
       \/ ~h.ok
       \/ ToOrdinal(d.y, d.m, d.d) > ToOrdinal(h.y, h.m, h.d)

\* C9: a call of either entry point with an unparseable date or a start
\* after the end gets past its validation only as a raised ValueError (or not
\* at all, when the process is killed first), with no browser, no profile, no
\* checkpoint made or looked up; every other range, start equal to end
\* included, passes the validation.
C9_InvalidRangeRejectedFirst ==
    (args.mode \in {"batch", "single"} /\ pc # "validate")
    => IF Rejected(args.fecha_desde, args.fecha_hasta)
       THEN /\ pc \in {"raised", "crashed"}
            /\ pc = "raised" => Len(log) = 1
            /\ \A i \in 1..Len(log) : i = 1 /\ log[i][1] = "validation"
            /\ browser = "closed"
            /\ profiles = {}
            /\ progress = << >> /\ loaded = << >>
            /\ uuids = 0
            /\ \A s \in SessionIds : files[s] = NoFile
       ELSE Events("validation") = << >>

C9_Witness ==
    /\ args.mode = "batch"
    /\ pc = "raised"
    /\ strptime_date(args.fecha_desde).ok /\ strptime_date(args.fecha_hasta).ok
    /\ Rejected(args.fecha_desde, args.fecha_hasta)

Tagged == str_in(tax_number(args.tax_code), row.filtros)

Ready == str_in("Finalizado", row.estado)

Parseable == strptime_stamp(str_strip(row.timestamp)).ok

WithinWindow ==
    /\ Parseable
    /\ SecondsBetween(export_time[1], strptime_stamp(str_strip(row.timestamp))) \in -300..300

CurrentJob == Len(grid.requested)

\* C11: the row whose artifact is about to be fetched is the entry of the
\* export the running variant requested, never the entry of an earlier
\* request of the run.
C11_FetchedEntryIsOwn ==
    (env.grid = "feed" /\ pc = "download") => row.job = CurrentJob

\* tag, ready and recent as the claims state them, for a row of a feed
Satisfies(r, tax_code, et) ==
    /\ r.present
    /\ str_in(tax_number(tax_code), r.filtros)
    /\ str_in("Finalizado", r.estado)
    /\ r.timestamp # ""
    /\ LET ts == strptime_stamp(str_strip(r.timestamp)) IN
       ts.ok => SecondsBetween(et, ts) \in -300..300

C13_PollingBoundedAndEnds ==
    /\ [](attempt <= 6 * MaxWaitMinutes)
    /\ [][ /\ pc' = "raised" => pc = "poll" /\ attempt = 6 * MaxWaitMinutes
           /\ (pc = "poll" /\ attempt < 6 * MaxWaitMinutes) =>
                pc' \in {"poll", "download"} /\ attempt' = attempt + 1
           /\ (pc = "download" /\ pc' = "poll") => attempt' = attempt
         ]_vars
    /\ (pc = "wait") ~> (pc \in {"downloaded", "raised"})

\* the call has ended with the timeout
C13_Witness ==
    /\ args.mode = "call"
    /\ pc = "raised"
    /\ runs = 1

\* year * 12 + month of the target of the call
TargetShown == nav.target_year * 12 + nav.target_month

\* the title last read is a title of the target month
TitleIsTarget == nav.title_text \in {Title(TargetShown, st) : st \in TitleStyles}

\* C14: a call whose first read shows the target month ends there, with
\* success and no click on either arrow.
C14_NoClickAtTarget ==
    (args.mode = "nav" /\ nav.attempts = 1 /\ nav.reads = 1 /\ TitleIsTarget
       /\ pc # "nav_parse")
    => /\ pc = "nav_done"
       /\ nav.outcome = "True"
       /\ nav.left = 0 /\ nav.right = 0

C14_Witness ==
    /\ pc = "nav_done"
    /\ nav.attempts = 1 /\ nav.reads = 1
    /\ TitleIsTarget
    /\ nav.outcome = "True"
    /\ nav.left + nav.right = 0

\* C15: whatever the widget does, a call makes at most 36 reads of the
\* title and at most 36 clicks, and it ends, returning True or raising
\* TimeoutError.
C15_NavigationBoundedAndEnds ==
    /\ [](/\ nav.reads <= nav_max_attempts
          /\ nav.left + nav.right <= nav_max_attempts
          /\ pc = "nav_done" => nav.outcome \in {"True", "TimeoutError"})
    /\ (pc = "nav_loop") ~> (pc = "nav_done")

C15_Witness ==
    /\ pc = "nav_done"
    /\ nav.outcome = "TimeoutError"
    /\ nav.reads = nav_max_attempts
    /\ nav.left + nav.right = nav_max_attempts

\* a click that did not raise was one click, on the left arrow when the
\* month shown is after the target and on the right arrow otherwise
OneClickTowardsTarget ==
    IF nav.shown > TargetShown
    THEN nav'.left = nav.left + 1 /\ nav'.right = nav.right
    ELSE nav'.right = nav.right + 1 /\ nav'.left = nav.left

\* "Marzo 2024" to (2024, 5) on a widget that moves a month a click
MarzoToMayo ==
    (/\ env.widget = "ok"
     /\ nav.target_year = 2024 /\ nav.target_month = 5
     /\ nav.shown - nav.right + nav.left = 2024 * 12 + 3
     /\ pc = "nav_done")
    => nav.right = 2 /\ nav.left = 0 /\ nav.outcome = "True" /\ nav.reads = 3

\* C16: an iteration off the target makes one click towards the target,
\* on the left arrow when the month shown is after the target and on the
\* right arrow otherwise, and the title is read again after the click; and
\* "Marzo 2024" to (2024, 5) is two clicks on the right arrow, none on the
\* left, then True.
C16_ClickThenReadAgain ==
    /\ [][ /\ (pc = "nav_click" /\ pc' # "nav_except") =>
                  (OneClickTowardsTarget /\ pc' = "nav_loop")
           /\ (pc = "nav_loop") => (pc' = "nav_read")
         ]_vars
    /\ []MarzoToMayo

\* C17: once a title could not be parsed the call reads no title and clicks
\* no arrow any more, and it ends with the parse error.
C17_ParseErrorEndsCall ==
    [][ nav.parse_failed =>
          /\ nav'.reads = nav.reads
          /\ nav'.left = nav.left /\ nav'.right = nav.right
          /\ pc' = "nav_done" => nav'.outcome = "ValueError"
      ]_vars

\* every request of the catalog window, in the order of the plan
AllRequests == RequestsFrom(1, {})

\* position of a request in the plan
RequestIndex(req) == CHOOSE k \in 1..Len(AllRequests) : AllRequests[k] = req

\* the variant of log line k ended (with a saved artifact, or with an error)
EndOf(k, code, name) ==
    /\ log[k][1] \in {"ok", "error"}
    /\ log[k][2] = code
    /\ log[k][3] = name

\* C18: the requests of a batch run are issued in the order of the plan
\* (items in catalog order, variants in the order of the item's list), a
\* request is issued only after every earlier request of the run has ended
\* with an artifact or with an error, and at most one request is under way.
C18_RequestsInOrderOneAtATime ==
    BatchCall =>
      /\ \A i, j \in 1..Len(Requests) :
           i < j => RequestIndex(Requests[i]) < RequestIndex(Requests[j])
      /\ \A i, j \in 1..Len(log) :
           (i < j /\ log[i][1] = "start" /\ log[j][1] = "start")
           => \E k \in (i + 1)..(j - 1) : EndOf(k, log[i][2], log[i][3])
      /\ Len(Events("start")) - Len(Events("ok")) - Len(Events("error")) \in {0, 1}
      /\ pc \in {"ops", "item_done", "loop", "all_done", "return", "returned"} =>
           Len(Events("start")) = Len(Events("ok")) + Len(Events("error"))

C18_Witness ==
    /\ BatchCall
    /\ pc = "returned"
    /\ Requests = AllRequests
    /\ Len(Requests) >= 3
    /\ Events("ok") # << >>
    /\ Events("error") # << >>

\* the sessions with a persisted checkpoint
Persisted == {s \in SessionIds : lastPersisted[s] # << >>}

PlanCodes == {Plan[i].code : i \in 1..Len(Plan)}

\* C19: a persisted checkpoint has status completed only with the code of
\* every catalog item in completed_tax_codes, and a batch run that went
\* through all items and returned has persisted status completed.
C19_CompletedMeansAllItems ==
    /\ \A s \in Persisted :
         lastPersisted[s][1].status = "completed"
         => PlanCodes \subseteq Range(lastPersisted[s][1].completed_tax_codes)
    /\ \A s \in SessionIds :
         (files[s].exists /\ files[s].text # << >>) => files[s].text = lastPersisted[s]
    /\ (BatchCall /\ pc = "returned") =>
         /\ lastPersisted[RunSession][1].status = "completed"
         /\ files[RunSession].text = lastPersisted[RunSession]

C19_Witness ==
    /\ BatchCall
    /\ pc = "returned"
    /\ IsResume /\ loaded # << >>
    /\ loaded[1].status = "in_progress"
    /\ Events("skip") # << >>
    /\ Events("done") # << >>
    /\ lastPersisted[RunSession][1].status = "completed"

\* C20: in every persisted checkpoint current_tax_code is None or a code
\* that is not in completed_tax_codes, and completed_tax_codes holds no code
\* twice; from one persisted version of a session to the next,
\* completed_tax_codes loses no code.
C20_CurrentNotCompletedAndGrows ==
    /\ [](\A s \in Persisted :
            LET c == lastPersisted[s][1] IN
            /\ c.current_tax_code = None
                 \/ c.current_tax_code \notin Range(c.completed_tax_codes)
            /\ Cardinality(Range(c.completed_tax_codes)) = Len(c.completed_tax_codes))
    /\ [][\A s \in Persisted :
            /\ lastPersisted'[s] # << >>
            /\ Range(lastPersisted[s][1].completed_tax_codes)
                 \subseteq Range(lastPersisted'[s][1].completed_tax_codes)]_vars

C20_Witness ==
    /\ BatchCall
    /\ runs >= 2
    /\ IsResume /\ loaded # << >>
    /\ loaded[1].completed_tax_codes # << >>
    /\ Events("skip") # << >>
    /\ lastPersisted[RunSession][1].current_tax_code # None
    /\ lastPersisted[RunSession][1].current_tax_code # loaded[1].current_tax_code

\* C21: the session of a batch that ended with status error is the one the
\* resume selection offers (it is the most recently written checkpoint), and
\* a run resumed from an error record goes on from the record's
\* completed_tax_codes and all_downloaded_files.
C21_ErrorSessionOffered ==
    /\ \A s \in Persisted :
         (/\ ~Running
          /\ mtime[1] = s
          /\ load_checkpoint(s) # << >>
          /\ load_checkpoint(s)[1].status = "error")
         => /\ find_latest_checkpoint # << >>
            /\ find_latest_checkpoint[1].session_id = s
    /\ (IsResume /\ loaded # << >> /\ loaded[1].status = "error" /\ progress # << >>)
       => /\ IsPrefix(loaded[1].completed_tax_codes, P.completed_tax_codes)
          /\ IsPrefix(loaded[1].all_downloaded_files, P.all_downloaded_files)

\* number of artifacts a record lists for the item with this code
FilesOf(code, rec) ==
    Cardinality({k \in 1..Len(rec.all_downloaded_files) :
                   str_in("MR_" \o code \o "_", rec.all_downloaded_files[k])})

\* C22: after a batch run that returned, the record it persisted tells of
\* every variant that failed and of its item: the status is not completed, or
\* the item is not among the completed ones, or the record lists fewer
\* artifacts for the item than the item has variants.
C22_FailureReflected ==
    (BatchCall /\ pc = "returned") =>
      \A i \in 1..Len(log) :
        log[i][1] = "error" =>
          LET rec == lastPersisted[RunSession][1] IN
          \/ rec.status # "completed"
          \/ log[i][2] \notin Range(rec.completed_tax_codes)
          \/ FilesOf(log[i][2], rec) < Len(Variants(Plan[PlanIndex(log[i][2])]))

\* C23: once a stop has been requested while an item is in progress, the
\* run marks no further item as current_tax_code.
C23_StopHonouredBetweenItems ==
    [][ (stop_requested /\ progress # << >> /\ progress' # << >>)
        => (P.current_tax_code = None => progress'[1].current_tax_code = None)
      ]_vars

\* the temporary profile directory of a session
ProfileOf(session_id) == "studioai_mr_batch_" \o session_id

\* C24: when a batch run has ended, the profile of its session is gone
\* exactly when the persisted status is completed (a run that returned), and
\* it is kept when the status is error (a run that raised); a kill removes
\* no profile; a profile is removed by nothing but the end of a completed
\* run of its session; and a run, resumed or not, uses the directory named
\* after its session id, which for a resumed session is the one kept.
C24_ProfileRemovedIffCompleted ==
    /\ []((BatchCall /\ pc \in {"returned", "raised"} /\ Events("validation") = << >>) =>
           /\ ProfileOf(RunSession) \notin profiles
                <=> lastPersisted[RunSession][1].status = "completed"
           /\ pc = "returned" => lastPersisted[RunSession][1].status = "completed"
           /\ pc = "raised" => lastPersisted[RunSession][1].status = "error")
    /\ [][ /\ \A d \in profiles \ profiles' :
                pc = "return" /\ P.status = "completed" /\ d = ProfileOf(P.session_id)
           /\ pc' = "crashed" => profiles' = profiles
           /\ (pc = "mkprofile" /\ pc' = "launch") =>
                /\ profiles' = profiles \cup {ProfileOf(P.session_id)}
                /\ loaded # << >> => P.session_id = args.resume_session_id
         ]_vars

C24_Witness ==
    /\ BatchCall
    /\ IsResume /\ loaded # << >>
    /\ loaded[1].status = "error"
    /\ pc = "launch"
    /\ runs = 2
    /\ profiles = {ProfileOf(args.resume_session_id)}

\* the timestamp text of the row gives no time: empty (also when the cell
\* could not be read) or not of the form dd/mm/yyyy HH:MM
Unparseable(r) == r.timestamp = "" \/ ~strptime_stamp(str_strip(r.timestamp)).ok

\* C25: a polling attempt whose first row is tagged, Finalizado and has a
\* timestamp that cannot be parsed (empty or unread included) goes on to the
\* download of that row.
C25_UnparseableIsRecent ==
    [][ (pc = "poll" /\ attempt < max_attempts) =>
          LET r == ScriptRow(attempt + 1) IN
          (r.present /\ has_tax(r, args.tax_code) /\ is_finalizado(r) /\ Unparseable(r))
          => (pc' = "download" /\ row' = r)
      ]_vars

\* C26: the call raises only from the loop test that finds the attempts
\* used up; an attempt that finds no row, unreadable cells or a row that
\* does not match is followed by the next attempt, and a download that
\* fails (no link, download timeout, save error) is followed by the next
\* attempt as well, or by the timeout when it was the last one.
C26_OnlyTimeoutPropagates ==
    [][ /\ pc' = "raised" => (pc = "poll" /\ attempt = max_attempts)
        /\ (pc = "poll" /\ attempt < max_attempts) =>
              (pc' \in {"poll", "download"} /\ attempt' = attempt + 1)
        /\ pc = "download" =>
              (pc' = "downloaded" \/ (pc' = "poll" /\ attempt' = attempt))
      ]_vars

\* the second attempt has been made although the rows of the first and of
\* the second attempt matched: both downloads failed and the call polls on
C26_Witness ==
    /\ args.mode = "call"
    /\ pc = "poll"
    /\ attempt = 2
    /\ Matches(ScriptRow(1), args.tax_code, export_time[1])
    /\ Matches(ScriptRow(2), args.tax_code, export_time[1])

\* C27: the reference time of a request is taken before its export is
\* triggered: when _export_csv clicks the CSV option export_time has been
\* read, and it is read at no later step of the variant.
C27_ReferenceTimeBeforeExport ==
    [][ /\ (pc = "export" /\ pc' = "popup") => export_time # << >>
        /\ (export_time = << >> /\ export_time' # << >>) =>
              pc \in {"fill", "consultar", "export"}
      ]_vars

\* year * 12 + month of the month a widget that moves a month a click showed
\* when the call began
StartShown == nav.shown - nav.right + nav.left

\* C28: on a widget that moves a month a click, a call whose target is at
\* most 36 months from the month shown at the start ends with True after as
\* many clicks as the distance, all of them towards the target.
C28_ReachesWithin36Months ==
    (/\ args.mode = "nav"
     /\ env.widget = "ok"
     /\ pc = "nav_done"
     /\ Abs(TargetShown - StartShown) <= nav_max_attempts)
    => /\ nav.outcome = "True"
       /\ nav.left + nav.right = Abs(TargetShown - StartShown)
       /\ nav.left = 0 \/ nav.right = 0

\* the row matches the request under way
MatchesRequest(r) == Matches(r, cur_tax_code, export_time[1])

\* C29: a download is only started from a poll, for the entry at the top
\* of the grid at that poll, which matches; a poll that finds the grid empty
\* or a top entry that does not match starts no download, whatever the
\* entries below it are; and once the attempts are used up the call ends
\* with the timeout.
C29_OnlyFirstRowInspected ==
    [][ /\ (pc # "download" /\ pc' = "download") =>
              /\ pc = "poll"
              /\ grid.rows # << >>
              /\ row' = grid.rows[1]
              /\ MatchesRequest(grid.rows[1])
        /\ (/\ pc = "poll"
            /\ attempt < max_attempts
            /\ grid.rows = << >> \/ ~MatchesRequest(grid.rows[1]))
           => pc' \in {"poll", "crashed"}
        /\ (pc = "poll" /\ attempt >= max_attempts) =>
              pc' \in {"poll", "variant_except", "crashed"}
      ]_vars

\* all attempts were made while the entry at the top does not match and the
\* entry below it does
C29_Witness ==
    /\ env.grid = "feed"
    /\ pc = "poll"
    /\ attempt = max_attempts
    /\ Len(grid.rows) >= 2
    /\ ~MatchesRequest(grid.rows[1])
    /\ MatchesRequest(grid.rows[2])
    /\ grid.rows[1].job = CurrentJob

\* C30: when the title holds the long name of one month and the
\* abbreviation of another, the month parsed is the one of the long name.
C30_LongFormBeforeAbbreviation ==
    (env.modes = {"label"} /\ pc \in {"nav_click", "nav_done"})
    => nav.current_month = nav.shown - 2024 * 12


(* ------------------------------ the window ---------------------------- *)

\* worker threads started in one behaviour of the window
MaxWorkers == 2

\* a worker thread as threading.Thread(target=worker).start() leaves it:
\* session is the resume_session_id it was given (0 is None) and later the
\* session of its checkpoint; saved: it has written the checkpoint; at "run"
\* it is inside asyncio.run, afterwards posts holds the self.after calls it
\* has still to make
Thread(kind, session) ==
    [kind |-> kind, session |-> session, saved |-> FALSE, at |-> "run", posts |-> << >>]

\* find_latest_checkpoint() as check_for_checkpoint and on_resume call it
latest_session == IF gui.in_progress = << >> THEN << >> ELSE <<gui.in_progress[1]>>

\* lines 1561-1562 and 1592
start_single_worker(g) ==
    [g EXCEPT !.btn = "disabled", !.btn_resume = "disabled",
              !.threads = Append(@, Thread("single", 0)), !.started = @ + 1]

\* lines 1602-1604 and 1652
start_batch_worker(g, resume_session_id) ==
    [g EXCEPT !.btn = "disabled", !.btn_resume = "disabled",
              !.batch_checkbox = "disabled",
              !.threads = Append(@, Thread("batch", resume_session_id)),
              !.started = @ + 1]

\* a step of the window or of a worker thread
WindowStep(g) ==
    /\ env.modes = {"gui"}
    /\ gui' = g
    /\ UNCHANGED <<env, stop_requested, mtime, nav, grid, file_path, files, lastPersisted,
                   progress, pc, ret, args, idx, opi, browser, profiles, portal, log,
                   uuids, runs, attempt, export_time, row, loaded>>

\* the main loop takes a click on the window: no message box is open (it
\* would hold the grab) and no callback is pending (see Mainloop)
UserTurn == gui.dialogs = 0 /\ gui.after = << >>

\* a click on "Iniciar": validate() shows a message box and starts nothing
\* when the form is not valid
on_start ==
    /\ gui.btn = "normal"
    /\ UserTurn
    /\ \E valid \in BOOLEAN :
         IF ~valid THEN WindowStep([gui EXCEPT !.dialogs = @ + 1])
         ELSE /\ gui.started < MaxWorkers
              /\ WindowStep(IF gui.batch_mode_var THEN start_batch_worker(gui, 0)
                            ELSE start_single_worker(gui))

\* a click on "Reanudar ultima sesion": the form is filled from the latest
\* checkpoint, batch mode is set, and after the confirmation the batch worker
\* is started with the session id of that checkpoint (its own validate() may
\* still reject the form, whose clave field on_resume does not fill)
on_resume ==
    /\ gui.btn_resume = "normal"
    /\ UserTurn
    /\ IF latest_session = << >>
       THEN WindowStep([gui EXCEPT !.dialogs = @ + 1])
       ELSE \E confirm \in BOOLEAN, valid \in BOOLEAN :
              LET g == [gui EXCEPT !.batch_mode_var = TRUE] IN
              IF ~confirm THEN WindowStep(g)
              ELSE IF ~valid THEN WindowStep([g EXCEPT !.dialogs = @ + 1])
              ELSE /\ gui.started < MaxWorkers
                   /\ WindowStep(start_batch_worker(g, latest_session[1]))

\* a click on the batch mode checkbox
on_batch_mode_changed ==
    /\ gui.batch_checkbox = "normal"
    /\ UserTurn
    /\ WindowStep([gui EXCEPT !.batch_mode_var = ~@])

\* the batch run of thread i writes its checkpoint with status in_progress:
\* a run without resume_session_id creates its session first
WorkerSave(i) ==
    /\ i \in DOMAIN gui.threads
    /\ gui.threads[i].kind = "batch"
    /\ gui.threads[i].at = "run"
    /\ LET session == IF gui.threads[i].session = 0 THEN gui.sessions + 1
                      ELSE gui.threads[i].session
           g == [gui EXCEPT !.threads[i].session = session, !.threads[i].saved = TRUE,
                            !.sessions = IF gui.threads[i].session = 0 THEN @ + 1 ELSE @,
                            !.in_progress = <<session>> \o
                                            SelectSeq(@, LAMBDA s : s # session)]
       IN /\ g # gui
          /\ WindowStep(g)

\* the self.after calls a worker makes once asyncio.run has ended, in order
Posts(kind, outcome) ==
    (IF outcome = "return" THEN <<"showinfo">> ELSE <<"showerror", "log_line">>)
    \o (IF kind = "batch" THEN <<"check_for_checkpoint">> ELSE << >>)
    \o <<"btn">>
    \o (IF kind = "batch" THEN <<"batch_checkbox">> ELSE << >>)
    \o <<"btn_resume">>

\* asyncio.run returns in thread i: a batch run has saved its checkpoint with
\* status completed before
WorkerReturn(i) ==
    /\ i \in DOMAIN gui.threads
    /\ gui.threads[i].at = "run"
    /\ gui.threads[i].kind = "batch" => gui.threads[i].saved
    /\ WindowStep([gui EXCEPT
           !.threads[i].at = "ending",
           !.threads[i].posts = Posts(gui.threads[i].kind, "return"),
           !.in_progress = SelectSeq(@, LAMBDA s : gui.threads[i].kind # "batch"
                                                   \/ s # gui.threads[i].session)])

\* asyncio.run raises in thread i: a batch run that had its progress object
\* has saved the checkpoint with status error before
WorkerRaise(i) ==
    /\ i \in DOMAIN gui.threads
    /\ gui.threads[i].at = "run"
    /\ WindowStep([gui EXCEPT
           !.threads[i].at = "ending",
           !.threads[i].posts = Posts(gui.threads[i].kind, "raise"),
           !.in_progress = SelectSeq(@, LAMBDA s : ~gui.threads[i].saved
                                                   \/ s # gui.threads[i].session)])

\* thread i makes its next self.after call; after the last one it ends
WorkerPost(i) ==
    /\ i \in DOMAIN gui.threads
    /\ gui.threads[i].at = "ending"
    /\ LET t == gui.threads[i] IN
       WindowStep([gui EXCEPT
           !.after = Append(@, Head(t.posts)),
           !.threads = IF Len(t.posts) = 1
                       THEN SubSeq(@, 1, i - 1) \o SubSeq(@, i + 1, Len(@))
                       ELSE [@ EXCEPT ![i].posts = Tail(t.posts)]])

\* what a callback handed to self.after does when the main loop runs it
Callback(g, cb) ==
    CASE cb \in {"showinfo", "showerror"} -> [g EXCEPT !.dialogs = @ + 1]
      [] cb = "check_for_checkpoint" ->
           [g EXCEPT !.btn_resume = IF g.in_progress # << >> THEN "normal"
                                    ELSE "disabled"]
      [] cb = "btn" -> [g EXCEPT !.btn = "normal"]
      [] cb = "batch_checkbox" -> [g EXCEPT !.batch_checkbox = "normal"]
      [] cb = "btn_resume" -> [g EXCEPT !.btn_resume = "normal"]
      [] OTHER -> g

RECURSIVE RunPending(_)
RunPending(g) ==
    IF g.after = << >> THEN g
    ELSE RunPending(Callback([g EXCEPT !.after = Tail(@)], Head(g.after)))

\* the main loop runs the callbacks that are pending, oldest first: timers
\* of self.after(0, ...) that are due fire together, before any later click
\* (a message box runs the loop itself while it is open)
Mainloop ==
    /\ gui.after # << >>
    /\ WindowStep(RunPending(gui))

\* the user closes a message box
Dismiss ==
    /\ gui.dialogs > 0
    /\ gui.after = << >>
    /\ WindowStep([gui EXCEPT !.dialogs = @ - 1])

\* the window opens on an OUTPUT_DIR that is empty or holds the in_progress
\* checkpoint an earlier process left; check_for_checkpoint sets Resume
InitGui ==
    /\ \E left \in {<< >>, <<1>>} :
         gui = [FreshApp EXCEPT !.in_progress = left, !.sessions = Len(left),
                                !.btn_resume = IF left # << >> THEN "normal"
                                               ELSE "disabled"]
    /\ env = [modes |-> {"gui"}, calls |-> 0, ranges |-> {}, rows |-> {NoRow},
              times |-> BatchTimes, grid |-> "any"]
    /\ grid = NoGrid /\ mtime = << >> /\ stop_requested = FALSE /\ nav = NoNav
    /\ files = [s \in SessionIds |-> NoFile]
    /\ lastPersisted = [s \in SessionIds |-> << >>]
    /\ progress = << >> /\ pc = "idle" /\ ret = "idle" /\ args = NoArgs
    /\ idx = 0 /\ opi = 0 /\ browser = "closed" /\ profiles = {}
    /\ portal = FreshPortal /\ log = << >> /\ uuids = 0 /\ runs = 0
    /\ attempt = 0 /\ export_time = << >> /\ row = NoRow /\ loaded = << >>
    /\ file_path = None

NextGui ==
    \/ on_start
    \/ on_resume
    \/ on_batch_mode_changed
    \/ \E i \in 1..MaxWorkers : WorkerSave(i)
    \/ \E i \in 1..MaxWorkers : WorkerReturn(i)
    \/ \E i \in 1..MaxWorkers : WorkerRaise(i)
    \/ \E i \in 1..MaxWorkers : WorkerPost(i)
    \/ Mainloop
    \/ Dismiss

\* the window, its user and its worker threads
SpecGui == InitGui /\ [][NextGui]_vars

\* the worker threads that are inside asyncio.run
Scraping == {i \in DOMAIN gui.threads : gui.threads[i].at = "run"}

\* C31: at most one worker is inside its scraper call at a time (so no two
\* workers write the same checkpoint record), and while one is, the Start and
\* Resume buttons are disabled.
C31_OneWorkerAtATime ==
    /\ Cardinality(Scraping) <= 1
    /\ Scraping # {} => (gui.btn = "disabled" /\ gui.btn_resume = "disabled")

\* codes are unique in TAX_TYPES and every item has its variants: one for
\* retencion, percepcion, ambas and fecha_solo, Retencion then Percepcion for
\* ambas_separadas
CatalogWellFormed ==
    /\ \A i, j \in 1..Len(TAX_TYPES) : TAX_TYPES[i].code = TAX_TYPES[j].code => i = j
    /\ \A i \in 1..Len(TAX_TYPES) :
         LET mode == TAX_TYPES[i].operation_mode
             ops == OperationsToRun(mode)
         IN /\ Len(ops) >= 1
            /\ mode \in {"retencion", "percepcion", "ambas", "fecha_solo"} => Len(ops) = 1
            /\ mode = "ambas_separadas" =>
                 (Len(ops) = 2 /\ ops[1].name = "Retencion" /\ ops[2].name = "Percepcion")
            /\ mode \in {"retencion", "percepcion", "ambas", "fecha_solo", "ambas_separadas"}

\* C32: the catalog has unique codes and a non-empty variant list of the
\* stated size for every item, and a step of the batch run that adds an item
\* to completed_tax_codes is made only after the run has started at least one
\* variant (export request) of that item.
C32_CatalogAndAttempts ==
    [][ /\ CatalogWellFormed
        /\ (/\ progress # << >>
            /\ progress' # << >>
            /\ Len(progress'[1].completed_tax_codes) > Len(P.completed_tax_codes))
           => LET done == progress'[1].completed_tax_codes
                  code == done[Len(done)]
              IN \E i \in 1..Len(log) : log[i][1] = "start" /\ log[i][2] = code
      ]_vars

\* the item with two variants has been marked completed by the running call
C32_Witness ==
    /\ progress # << >>
    /\ "IMP_219" \in Range(P.completed_tax_codes)
    /\ \E i \in 1..Len(log) : log[i] = <<"done", "IMP_219">>
    /\ Len(SelectSeq(log, LAMBDA e : e[1] = "start" /\ e[2] = "IMP_219")) = 2

\* C33: a first row whose artifact is fetched and whose timestamp can be
\* parsed has a timestamp that differs from export_time by at most 2 minutes.
C33_AcceptedWithinTwoMinutes ==
    (pc = "download" /\ Parseable) =>
      Abs(SecondsBetween(export_time[1], strptime_stamp(str_strip(row.timestamp)))) <= 2 * 60

\* C34: the record of a batch session never lists more artifact paths for an
\* item than the item has variants, however often the session was interrupted
\* and resumed (no variant whose path was persisted is downloaded again).
C34_OnePathPerVariant ==
    progress # << >> =>
      \A i \in 1..Len(Plan) : FilesOf(Plan[i].code, P) <= Len(Variants(Plan[i]))

(* ----------------- resumes with other arguments ------------------------ *)

\* two accepted ranges a caller may pass, to the first call and to a resuming one
ResumeRanges == {<<"01/01/2024", "31/01/2024">>, <<"15/01/2024", "15/01/2024">>}

InitResume ==
    /\ Start
    /\ env = [modes |-> {"batch"}, calls |-> MaxRuns, ranges |-> ResumeRanges,
              rows |-> {Row(TRUE, "Impuesto: 218", "Finalizado", "15/11/2025 19:51")},
              times |-> BatchTimes, grid |-> "any"]

\* batch runs, crashes and resumes whose callers choose the date range freely
SpecResume == InitResume /\ [][BatchNext]_vars


\* the part of an artifact name that tells the target and the date range
Covers(rec) ==
    "_" \o rec.cuit_target \o "_" \o str_remove(rec.fecha_desde, "/")
        \o "_" \o str_remove(rec.fecha_hasta, "/") \o "_"

\* C35: a batch run that loaded a checkpoint record fills the query form with
\* the cuit_target, fecha_desde and fecha_hasta of that record, and every
\* artifact path listed in a session's record is for the target and the date
\* range of the record.
C35_ResumeUsesRecordedInputs ==
    /\ (BatchCall /\ loaded # << >> /\ pc = "fill") =>
         /\ args.cuit_target = loaded[1].cuit_target
         /\ args.fecha_desde = loaded[1].fecha_desde
         /\ args.fecha_hasta = loaded[1].fecha_hasta
    /\ progress # << >> =>
         \A k \in 1..Len(P.all_downloaded_files) :
           str_in(Covers(P), P.all_downloaded_files[k])

(* ----------------------- scrape_mis_comprobantes ----------------------- *)

\* (fecha_desde, fecha_hasta) pairs passed to scrape_mis_comprobantes
McRanges == {
    <<"15/01/2024", "15/01/2024">>,
    <<"01/01/2023", "01/01/2024">>,
    <<"01/01/2024", "31/12/2024">>,
    <<"01/01/2024", "01/01/2025">>,
    <<"01/01/2023", "02/01/2024">>,
    <<"01/01/2020", "01/01/2024">>,
    <<"31/01/2024", "01/01/2024">>,
    <<"2024-01-01", "31/01/2024">> }

\* validar_rango_fecha rejecting a range of 365 days as well
mc_validar_rango_fecha_AtLeast(fecha_desde, fecha_hasta) ==
    LET desde == strptime_date(fecha_desde)
        hasta == strptime_date(fecha_hasta)
    IN IF ~desde.ok \/ ~hasta.ok
       THEN [es_valido |-> FALSE, mensaje |-> "Formato de fecha invalido. Use dd/mm/yyyy"]
       ELSE IF DateAfter(desde, hasta)
       THEN [es_valido |-> FALSE,
             mensaje |-> "La fecha 'desde' no puede ser posterior a la fecha 'hasta'"]
       ELSE IF ToOrdinal(hasta.y, hasta.m, hasta.d) - ToOrdinal(desde.y, desde.m, desde.d) >= 365
       THEN [es_valido |-> FALSE,
             mensaje |-> "El rango de fechas excede el maximo permitido de 365 dias"]
       ELSE [es_valido |-> TRUE, mensaje |-> ""]

\* validar_rango_fecha of afip_mis_comprobantes_guidance.py: (es_valido, mensaje)
mc_validar_rango_fecha(fecha_desde, fecha_hasta) ==
    LET desde == strptime_date(fecha_desde)
        hasta == strptime_date(fecha_hasta)
    IN IF ~desde.ok \/ ~hasta.ok
       THEN [es_valido |-> FALSE, mensaje |-> "Formato de fecha invalido. Use dd/mm/yyyy"]
       ELSE IF DateAfter(desde, hasta)
       THEN [es_valido |-> FALSE,
             mensaje |-> "La fecha 'desde' no puede ser posterior a la fecha 'hasta'"]
       ELSE IF ToOrdinal(hasta.y, hasta.m, hasta.d) - ToOrdinal(desde.y, desde.m, desde.d) > 365
       THEN [es_valido |-> FALSE,
             mensaje |-> "El rango de fechas excede el maximo permitido de 365 dias"]
       ELSE [es_valido |-> TRUE, mensaje |-> ""]

\* a caller invokes scrape_mis_comprobantes
CallComprobantes ==
    /\ pc = "idle"
    /\ env.modes = {"mc"}
    /\ runs < env.calls
    /\ \E dr \in env.ranges, ct \in CuitTargets :
         args' = [NoArgs EXCEPT !.mode = "mc", !.cuit_target = ct,
                                !.fecha_desde = dr[1], !.fecha_hasta = dr[2]]
    /\ pc' = "mc_validate"
    /\ runs' = runs + 1
    /\ log' = << >>
    /\ UNCHANGED <<env, gui, stop_requested, mtime, nav, grid, file_path, files, lastPersisted, progress, ret, idx, opi,
                   browser, profiles, portal, uuids, attempt, export_time, row, loaded>>

\* lines 403-407
McValidate ==
    /\ pc = "mc_validate"
    /\ LET v == mc_validar_rango_fecha(args.fecha_desde, args.fecha_hasta) IN
       IF ~v.es_valido
       THEN /\ log' = Append(log, <<"validation", v.mensaje>>)
            /\ pc' = "raised"
       ELSE /\ log' = log
            /\ pc' = "mc_profile"
    /\ UNCHANGED <<env, gui, stop_requested, mtime, nav, grid, file_path, files, lastPersisted, progress, ret, args, idx, opi,
                   browser, profiles, portal, uuids, runs, attempt, export_time, row, loaded>>

\* the temporary profile of the call, named after a uuid4().hex[:8]
McProfile == "studioai_mc_" \o SubSeq(IdPool[runs], 1, 8)

\* lines 409-413
McMkProfile ==
    /\ pc = "mc_profile"
    /\ profiles' = profiles \cup {McProfile}
    /\ pc' = "mc_launch"
    /\ UNCHANGED <<env, gui, stop_requested, mtime, nav, grid, file_path, files, lastPersisted, progress, ret, args, idx, opi,
                   browser, portal, log, uuids, runs, attempt, export_time, row, loaded>>

\* lines 416-423: the persistent context is launched, or the launch raises
McLaunch ==
    /\ pc = "mc_launch"
    /\ \/ /\ browser' = "open"
          /\ pc' = "mc_steps"
          /\ idx' = 1
       \/ /\ browser' = "closed"
          /\ pc' = "mc_finally"
          /\ idx' = idx
    /\ UNCHANGED <<env, gui, stop_requested, mtime, nav, grid, file_path, files, lastPersisted, progress, ret, args, opi,
                   profiles, portal, log, uuids, runs, attempt, export_time, row, loaded>>

\* lines 425-469: the calls of the run in their order; those that take the
\* date range are marked
McSteps == <<
    [call |-> "_afip_login", dates |-> FALSE],
    [call |-> "_open_mis_comprobantes", dates |-> FALSE],
    [call |-> "_select_cuit_mc", dates |-> FALSE],
    [call |-> "_click_comprobantes_emitidos", dates |-> FALSE],
    [call |-> "_fill_date_field", dates |-> TRUE],
    [call |-> "_click_buscar", dates |-> FALSE],
    [call |-> "_export_to_csv EMITIDOS", dates |-> TRUE],
    [call |-> "_click_menu_principal", dates |-> FALSE],
    [call |-> "_click_comprobantes_recibidos", dates |-> FALSE],
    [call |-> "_fill_date_field", dates |-> TRUE],
    [call |-> "_click_buscar", dates |-> FALSE],
    [call |-> "_export_to_csv RECIBIDOS", dates |-> TRUE] >>

\* the next call of the run returns, or it raises
McStep ==
    /\ pc = "mc_steps"
    /\ \/ /\ log' = Append(log, IF McSteps[idx].dates
                                THEN <<McSteps[idx].call, args.fecha_desde, args.fecha_hasta>>
                                ELSE <<McSteps[idx].call>>)
          /\ idx' = idx + 1
          /\ pc' = IF idx = Len(McSteps) THEN "mc_return" ELSE "mc_steps"
       \/ /\ log' = Append(log, <<"failed", McSteps[idx].call>>)
          /\ idx' = idx
          /\ pc' = "mc_finally"
    /\ UNCHANGED <<env, gui, stop_requested, mtime, nav, grid, file_path, files, lastPersisted, progress, ret, args, opi,
                   browser, profiles, portal, uuids, runs, attempt, export_time, row, loaded>>

\* lines 479-489: the result is returned through the finally block
McReturn ==
    /\ pc = "mc_return"
    /\ profiles' = profiles \ {McProfile}
    /\ pc' = "returned"
    /\ EndOfCall
    /\ UNCHANGED <<env, gui, mtime, nav, grid, files, lastPersisted, args, portal, log, uuids, runs, loaded>>

\* lines 485-489: an exception leaves through the finally block
McFinally ==
    /\ pc = "mc_finally"
    /\ profiles' = profiles \ {McProfile}
    /\ pc' = "raised"
    /\ EndOfCall
    /\ UNCHANGED <<env, gui, mtime, nav, grid, files, lastPersisted, args, portal, log, uuids, runs, loaded>>

InitComprobantes ==
    /\ Start
    /\ env = [modes |-> {"mc"}, calls |-> 1, ranges |-> McRanges, rows |-> {NoRow},
              times |-> BatchTimes, grid |-> "any"]

NextComprobantes ==
    \/ CallComprobantes
    \/ McValidate
    \/ McMkProfile
    \/ McLaunch
    \/ McStep
    \/ McReturn
    \/ McFinally

\* one call of scrape_mis_comprobantes
SpecComprobantes == InitComprobantes /\ [][NextComprobantes]_vars

\* the number of days from fecha_desde to fecha_hasta of the ranges passed,
\* counted on the calendar (2024 is a leap year)
CalendarDays(dr) ==
    CASE dr = <<"15/01/2024", "15/01/2024">> -> 0
      [] dr = <<"01/01/2023", "01/01/2024">> -> 365
      [] dr = <<"01/01/2024", "31/12/2024">> -> 365
      [] dr = <<"01/01/2024", "01/01/2025">> -> 366
      [] dr = <<"01/01/2023", "02/01/2024">> -> 366
      [] dr = <<"01/01/2020", "01/01/2024">> -> 1461
      [] dr = <<"31/01/2024", "01/01/2024">> -> 0 - 30
      [] OTHER -> 0

McCall == args.mode = "mc"

McRange == <<args.fecha_desde, args.fecha_hasta>>

\* the calls of the run that took the date range, in their order
McDated == SelectSeq(log, LAMBDA e : Len(e) = 3)

\* C36: a call of scrape_mis_comprobantes whose range starts after its end or
\* is longer than 365 days ends at the validation, with no profile made and no
\* browser launched; a range of exactly 365 days passes the validation; a run
\* fills and exports Emitidos before Recibidos, each with the range of the
\* call; and when the call has ended, by return or by exception, its
\* temporary profile does not exist.
C36_ComprobantesRangeOrderCleanup ==
    McCall =>
      /\ (CalendarDays(McRange) < 0 \/ CalendarDays(McRange) > 365) =>
           (pc \in {"mc_validate", "raised"} /\ profiles = {} /\ browser = "closed")
      /\ (CalendarDays(McRange) = 365 /\ pc # "mc_validate") =>
           \A i \in 1..Len(log) : log[i][1] # "validation"
      /\ IsPrefix(McDated,
                  << <<"_fill_date_field", args.fecha_desde, args.fecha_hasta>>,
                     <<"_export_to_csv EMITIDOS", args.fecha_desde, args.fecha_hasta>>,
                     <<"_fill_date_field", args.fecha_desde, args.fecha_hasta>>,
                     <<"_export_to_csv RECIBIDOS", args.fecha_desde, args.fecha_hasta>> >>)
      /\ pc = "returned" => Len(McDated) = 4
      /\ pc \in {"returned", "raised"} => (profiles = {} /\ browser = "closed")

\* a call over exactly 365 days has returned with both exports made
C36_Witness ==
    /\ McCall
    /\ pc = "returned"
    /\ CalendarDays(McRange) = 365
    /\ Len(McDated) = 4

(* --------------------------- sanitize_secrets -------------------------- *)

\* longest message and longest clave passed to sanitize_secrets
MaxMessageLen == 4

MaxClaveLen == 2

\* the characters of the messages and claves passed
SecretChars == {"a", "b", "*"}

RECURSIVE StringsUpTo(_)
StringsUpTo(n) ==
    IF n = 0 THEN {""}
    ELSE LET shorter == StringsUpTo(n - 1) IN
         shorter \cup {t \o c : t \in shorter, c \in SecretChars}

\* str_replace replacing the first occurrence only
RECURSIVE str_replace_First(_, _, _)
str_replace_First(s, old, new) ==
    IF Len(s) < Len(old) THEN s
    ELSE IF SubSeq(s, 1, Len(old)) = old
    THEN new \o SubSeq(s, Len(old) + 1, Len(s))
    ELSE SubSeq(s, 1, 1) \o str_replace_First(SubSeq(s, 2, Len(s)), old, new)

\* Python: s.replace(old, new) for a non-empty old: the occurrences are taken
\* from the left and do not overlap
RECURSIVE str_replace(_, _, _)
str_replace(s, old, new) ==
    IF Len(s) < Len(old) THEN s
    ELSE IF SubSeq(s, 1, Len(old)) = old
    THEN new \o str_replace(SubSeq(s, Len(old) + 1, Len(s)), old, new)
    ELSE SubSeq(s, 1, 1) \o str_replace(SubSeq(s, 2, Len(s)), old, new)

\* lines 40-44
sanitize_secrets(message, clave) ==
    IF clave # "" /\ Len(clave) > 0
    THEN str_replace(message, clave, "****")
    ELSE message

\* a caller has a message and a clave
CallSanitize ==
    /\ pc = "idle"
    /\ env.modes = {"sanitize"}
    /\ \E message \in StringsUpTo(MaxMessageLen), clave \in StringsUpTo(MaxClaveLen) :
         args' = [mode |-> "sanitize", message |-> message, clave |-> clave]
    /\ pc' = "sanitize"
    /\ UNCHANGED <<env, gui, stop_requested, mtime, nav, grid, file_path, files, lastPersisted, progress, ret, idx, opi,
                   browser, profiles, portal, log, uuids, runs, attempt, export_time, row, loaded>>

\* sanitize_secrets(message, clave) is called
Sanitize ==
    /\ pc = "sanitize"
    /\ log' = <<sanitize_secrets(args.message, args.clave)>>
    /\ pc' = "sanitized"
    /\ UNCHANGED <<env, gui, stop_requested, mtime, nav, grid, file_path, files, lastPersisted, progress, ret, args, idx, opi,
                   browser, profiles, portal, uuids, runs, attempt, export_time, row, loaded>>

\* sanitize_secrets is called on its own result
SanitizeAgain ==
    /\ pc = "sanitized"
    /\ log' = Append(log, sanitize_secrets(log[1], args.clave))
    /\ pc' = "returned"
    /\ UNCHANGED <<env, gui, stop_requested, mtime, nav, grid, file_path, files, lastPersisted, progress, ret, args, idx, opi,
                   browser, profiles, portal, uuids, runs, attempt, export_time, row, loaded>>

InitSanitize ==
    /\ Start
    /\ env = [modes |-> {"sanitize"}, calls |-> 1, ranges |-> {}, rows |-> {NoRow},
              times |-> BatchTimes, grid |-> "any"]

\* sanitize_secrets applied once and twice to every message and clave
SpecSanitize == InitSanitize /\ [][CallSanitize \/ Sanitize \/ SanitizeAgain]_vars

Sanitized == args.mode = "sanitize" /\ pc \in {"sanitized", "returned"}

\* C37 as claimed: for a non-empty clave the result holds no occurrence of
\* the clave and a second application changes nothing; for an empty clave the
\* message is returned unchanged.
C37_ResultHoldsNoClave ==
    Sanitized =>
      /\ args.clave # "" => ~str_in(args.clave, log[1])
      /\ (args.clave # "" /\ pc = "returned") => log[2] = log[1]
      /\ args.clave = "" => log[1] = args.message

\* C37: for a non-empty clave without the character * the result holds no
\* occurrence of the clave and a second application changes nothing; for an
\* empty clave the message is returned unchanged, by one application and by two.
C37_ResultHoldsNoStarFreeClave ==
    Sanitized =>
      /\ (args.clave # "" /\ ~str_in("*", args.clave)) => ~str_in(args.clave, log[1])
      /\ (args.clave # "" /\ ~str_in("*", args.clave) /\ pc = "returned") => log[2] = log[1]
      /\ args.clave = "" => \A i \in 1..Len(log) : log[i] = args.message

\* a message with two occurrences of a clave without * has been sanitized twice
C37_Witness ==
    /\ Sanitized
    /\ pc = "returned"
    /\ args.clave = "ab"
    /\ args.message = "abab"
    /\ log = <<"********", "********">>
====
